---- MODULE Spec2Model ----
(***************************************************************************)
(* Cumulative progressive tax withholding calculator                      *)
(* (fastApiProject/app/tax_calculator.py, class TaxCalculator).           *)
(*                                                                         *)
(* Money is held as an integer number of mills (1/1000 yuan): a Decimal   *)
(* with two places is a multiple of 10 mills, 0.8 * amount has three      *)
(* places.  The unrounded cumulative tax (taxable * rate - quick          *)
(* deduction) has five places and is held as a record [c, f]: c whole     *)
(* cents plus f thousandths of a cent.                                    *)
(* A payment_time is the integer yyyymmdd, a year_month the integer       *)
(* yyyymm ("YYYY-MM" zero padded, whose string order is the integer       *)
(* order).  An optional value is a sequence: <<>> is None, <<v>> is v.    *)
(***************************************************************************)
EXTENDS Integers, Sequences, FiniteSets, TLC

(***************************************************************************)
(* Bounds of the model                                                     *)
(***************************************************************************)
MaxRecords == 3

(***************************************************************************)
(* Decimal arithmetic                                                      *)
(***************************************************************************)
Max(a, b) == IF a >= b THEN a ELSE b

\* int(x) of one part of "YYYY-MM".split('-')
YearOf(year_month) == year_month \div 100
MonthOf(year_month) == year_month % 100

\* DATE_FORMAT(payment_time, '%Y-%m')
YearMonthOf(payment_time) == payment_time \div 100

\* round(x, 2) and f"{x:.2f}" of a Decimal: ROUND_HALF_EVEN to cents
Round2(x) ==
    LET q == x \div 10
        r == x % 10
    IN  IF r > 5 \/ (r = 5 /\ q % 2 = 1) THEN (q + 1) * 10 ELSE q * 10

\* taxable * tax_rate - quick_deduction, exact: taxable and quick_deduction
\* in mills, the rate in percent
TaxProduct(taxable, pct, quick_deduction) ==
    LET a == taxable \div 1000
        b == taxable % 1000
    IN  [c |-> a * pct + ((b * pct) \div 1000) - (quick_deduction \div 10),
         f |-> (b * pct) % 1000]

FineZero == [c |-> 0, f |-> 0]

\* max(Decimal('0.00'), x) of an unrounded tax
FineMax0(x) == IF x.c < 0 THEN FineZero ELSE x

\* x.quantize(Decimal('0.01'), rounding=ROUND_HALF_UP), in mills
QuantizeHalfUp(x) ==
    IF x.c >= 0
    THEN (IF x.f >= 500 THEN x.c + 1 ELSE x.c) * 10
    ELSE (IF x.f > 500 THEN x.c + 1 ELSE x.c) * 10

\* f"{x:.2f}" of an unrounded tax: ROUND_HALF_EVEN, in mills
FineFormat2(x) ==
    (IF x.f > 500 \/ (x.f = 500 /\ x.c % 2 = 1) THEN x.c + 1 ELSE x.c) * 10

\* (current_tax / bill_amount * 100).quantize(Decimal('0.01')): percent in
\* hundredths, ROUND_HALF_EVEN; both amounts have two places, bill_amount > 0
EffectiveRate(current_tax, bill_amount) ==
    LET t  == current_tax \div 10
        b  == bill_amount \div 10
        q0 == t \div b
        r0 == t % b
        q1 == (r0 * 100) \div b
        r1 == (r0 * 100) % b
        q2 == (r1 * 100) \div b
        r2 == (r1 * 100) % b
        q  == q0 * 10000 + q1 * 100 + q2
    IN  IF 2 * r2 > b \/ (2 * r2 = b /\ q % 2 = 1) THEN q + 1 ELSE q

(***************************************************************************)
(* get_tax_rate_and_deduction: <<rate in percent, quick deduction>>        *)
(***************************************************************************)
\* get_tax_rate_and_deduction with exclusive upper bounds
get_tax_rate_and_deduction_Exclusive(taxable_income_arg) ==
    LET taxable_income == Max(0, taxable_income_arg)
    IN  IF taxable_income < 36000000 THEN <<3, 0>>
        ELSE IF taxable_income < 144000000 THEN <<10, 2520000>>
        ELSE IF taxable_income < 300000000 THEN <<20, 16920000>>
        ELSE IF taxable_income < 420000000 THEN <<25, 31920000>>
        ELSE IF taxable_income < 660000000 THEN <<30, 52920000>>
        ELSE IF taxable_income < 960000000 THEN <<35, 85920000>>
        ELSE <<45, 181920000>>

\* get_tax_rate_and_deduction with two digits of one quick deduction
\* exchanged (16290 for 16920)
get_tax_rate_and_deduction_WrongDeduction(taxable_income_arg) ==
    LET taxable_income == Max(0, taxable_income_arg)
    IN  IF taxable_income <= 36000000 THEN <<3, 0>>
        ELSE IF taxable_income <= 144000000 THEN <<10, 2520000>>
        ELSE IF taxable_income <= 300000000 THEN <<20, 16290000>>
        ELSE IF taxable_income <= 420000000 THEN <<25, 31920000>>
        ELSE IF taxable_income <= 660000000 THEN <<30, 52920000>>
        ELSE IF taxable_income <= 960000000 THEN <<35, 85920000>>
        ELSE <<45, 181920000>>

get_tax_rate_and_deduction(taxable_income_arg) ==
    LET taxable_income == Max(0, taxable_income_arg)
    IN  IF taxable_income <= 36000000 THEN <<3, 0>>
        ELSE IF taxable_income <= 144000000 THEN <<10, 2520000>>
        ELSE IF taxable_income <= 300000000 THEN <<20, 16920000>>
        ELSE IF taxable_income <= 420000000 THEN <<25, 31920000>>
        ELSE IF taxable_income <= 660000000 THEN <<30, 52920000>>
        ELSE IF taxable_income <= 960000000 THEN <<35, 85920000>>
        ELSE <<45, 181920000>>

(***************************************************************************)
(* Input domains                                                           *)
(***************************************************************************)
None == <<>>
Some(v) == <<v>>

\* payment times: two in 2025-10, then 2025-11, 2025-12 and 2026-01
PaymentTimes == {20251010, 20251020, 20251115, 20251220, 20260105}

\* valid bill amounts: 10000.00 and 41000.25
ValidAmounts == {Some(10000000), Some(41000250)}

CredentialNums == {"A", "B"}
BatchNos == {"B1", "B2"}

BillingRecord(t, a, b, c) ==
    [payment_time |-> t, bill_amount |-> a, year_month |-> YearMonthOf(t),
     batch_no |-> b, credential_num |-> c]

\* the keyword options of a call: income_type and the five deductions as
\* the caller passes them (a negative one included)
NoDeductions ==
    [accumulated_special_deduction |-> 0,
     accumulated_additional_deduction |-> 0,
     accumulated_other_deduction |-> 0,
     accumulated_pension_deduction |-> 0,
     accumulated_donation_deduction |-> 0]

SomeDeductions ==
    [accumulated_special_deduction |-> 1000000,
     accumulated_additional_deduction |-> 2000000,
     accumulated_other_deduction |-> -300000,
     accumulated_pension_deduction |-> 400000,
     accumulated_donation_deduction |-> 50000]

Deductions == {NoDeductions, SomeDeductions}
IncomeTypes == {1, 2}

SeqsUpTo(S, n) == UNION {[1..k -> S] : k \in 0..n}

(***************************************************************************)
(* sorted(records, key=lambda x: (x['year_month'], x.get('payment_time'))) *)
(* a stable insertion sort                                                 *)
(***************************************************************************)
KeyLeq(x, y) ==
    \/ x.year_month < y.year_month
    \/ x.year_month = y.year_month /\ x.payment_time <= y.payment_time

KeyLess(x, y) == ~KeyLeq(y, x)

RECURSIVE InsertSorted(_, _)
InsertSorted(s, x) ==
    IF s = <<>> THEN <<x>>
    ELSE IF KeyLess(x, s[1]) THEN <<x>> \o s
    ELSE <<s[1]>> \o InsertSorted(Tail(s), x)

RECURSIVE SortRecords(_)
SortRecords(s) ==
    IF s = <<>> THEN <<>>
    ELSE InsertSorted(SortRecords(SubSeq(s, 1, Len(s) - 1)), s[Len(s)])

(***************************************************************************)
(* calculate_tax: option parsing, lines 312-324                            *)
(***************************************************************************)
ParseOptions(kw) ==
    [income_type |-> kw.income_type,
     accumulated_special_deduction |-> Max(0, kw.accumulated_special_deduction),
     accumulated_additional_deduction |-> Max(0, kw.accumulated_additional_deduction),
     accumulated_other_deduction |-> Max(0, kw.accumulated_other_deduction),
     accumulated_pension_deduction |-> Max(0, kw.accumulated_pension_deduction),
     accumulated_donation_deduction |-> Max(0, kw.accumulated_donation_deduction)]

(***************************************************************************)
(* calculate_tax: the body of the loop over sorted_records                 *)
(***************************************************************************)
\* line 346: the record is skipped
InvalidAmount(record) ==
    IF record.bill_amount = None THEN TRUE ELSE record.bill_amount[1] < 0

FreshAccumulator(reason) ==
    [nrecords |-> 0, total_amount |-> 0, paid_tax |-> 0, monthly_income |-> 0,
     started |-> FALSE, reset_reason |-> reason]

\* ResetReason with the gap test off by one month
ResetReason_GapOver2(last_income_month, month_key) ==
    IF last_income_month # None
    THEN IF YearOf(month_key) # YearOf(last_income_month[1])
         THEN <<"year_reset", last_income_month[1], month_key>>
         ELSE IF MonthOf(month_key) - MonthOf(last_income_month[1]) > 2
              THEN <<"gap_reset", last_income_month[1], month_key>>
              ELSE <<>>
    ELSE <<>>

\* ResetReason that looks at the elapsed months only
ResetReason_MonthsOnly(last_income_month, month_key) ==
    IF last_income_month # None
    THEN IF (YearOf(month_key) - YearOf(last_income_month[1])) * 12
            + MonthOf(month_key) - MonthOf(last_income_month[1]) > 1
         THEN <<"gap_reset", last_income_month[1], month_key>>
         ELSE <<>>
    ELSE <<>>

\* ResetReason that resets whenever the month changes
ResetReason_EveryMonth(last_income_month, month_key) ==
    IF last_income_month # None
    THEN IF YearOf(month_key) # YearOf(last_income_month[1])
         THEN <<"year_reset", last_income_month[1], month_key>>
         ELSE IF MonthOf(month_key) - MonthOf(last_income_month[1]) > 0
              THEN <<"gap_reset", last_income_month[1], month_key>>
              ELSE <<>>
    ELSE <<>>

\* lines 357-368: the reset reason, <<>> when no reset is needed
ResetReason(last_income_month, month_key) ==
    IF last_income_month # None
    THEN IF YearOf(month_key) # YearOf(last_income_month[1])
         THEN <<"year_reset", last_income_month[1], month_key>>
         ELSE IF MonthOf(month_key) - MonthOf(last_income_month[1]) > 1
              THEN <<"gap_reset", last_income_month[1], month_key>>
              ELSE <<>>
    ELSE <<>>

\* MonthlyIncome without the factor 0.8
MonthlyIncome_NoFactor(income_type, total_amount) ==
    Max(0, total_amount)

\* MonthlyIncome with the factor 0.8 for every income type
MonthlyIncome_AlwaysFactor(income_type, total_amount) ==
    Max(0, (total_amount * 8) \div 10)

\* lines 390-394
MonthlyIncome(income_type, total_amount) ==
    Max(0, IF income_type = 1 THEN (total_amount * 8) \div 10 ELSE total_amount)

\* AccumulateIncome that adds the month's income on every record
AccumulateIncome_Add(started, accumulated_income_, previous_monthly_income, monthly_income) ==
    accumulated_income_ + monthly_income

\* lines 396-401: the annual accumulation
AccumulateIncome(started, accumulated_income_, previous_monthly_income, monthly_income) ==
    IF ~started
    THEN accumulated_income_ + monthly_income
    ELSE accumulated_income_ - previous_monthly_income + monthly_income

\* CountMonth that counts every record
CountMonth_EveryRecord(started, accumulated_months_) ==
    Max(1, accumulated_months_ + 1)

\* lines 396-399, 404: the month count
CountMonth(started, accumulated_months_) ==
    Max(1, IF ~started THEN accumulated_months_ + 1 ELSE accumulated_months_)

\* AccumulatedTaxable that leaves the donation out
AccumulatedTaxable_NoDonation(income, deduction, special, additional, other, pension, donation) ==
    Max(0, income - deduction - special - additional - other - pension)

\* lines 413-415
AccumulatedTaxable(income, deduction, special, additional, other, pension, donation) ==
    Max(0, income - deduction - special - additional - other - pension - donation)

\* line 418
AccumulatedTotalTax(accumulated_taxable) ==
    LET rd == get_tax_rate_and_deduction(accumulated_taxable)
    IN  FineMax0(TaxProduct(accumulated_taxable, rd[1], rd[2]))

\* lines 421-423; a paid total has two places, its quantize changes nothing
QuantizePaid(x) == ((x + 5) \div 10) * 10

\* CurrentTax with the context's rounding (half even) for the cumulative tax
CurrentTax_HalfEven(accumulated_total_tax, prev_total_paid_tax) ==
    Max(0, FineFormat2(accumulated_total_tax) - QuantizePaid(prev_total_paid_tax))

\* CurrentTax without the floor at zero
CurrentTax_NoFloor(accumulated_total_tax, prev_total_paid_tax) ==
    QuantizeHalfUp(accumulated_total_tax) - QuantizePaid(prev_total_paid_tax)

\* CurrentTax that charges the whole cumulative tax on every record
CurrentTax_IgnoresPaid(accumulated_total_tax, prev_total_paid_tax) ==
    QuantizeHalfUp(accumulated_total_tax)

CurrentTax(accumulated_total_tax, prev_total_paid_tax) ==
    Max(0, QuantizeHalfUp(accumulated_total_tax) - QuantizePaid(prev_total_paid_tax))

\* the cumulative tax of a row without the comparison with the paid total
TotalTaxField_NoMax(rounded_accumulated_tax, rounded_prev_paid_tax) ==
    rounded_accumulated_tax

\* line 485: the accumulated_total_tax of a row
TotalTaxField(rounded_accumulated_tax, rounded_prev_paid_tax) ==
    Max(rounded_accumulated_tax, rounded_prev_paid_tax)

\* a reason that stays on the month's accumulator once it was traced
ClearReason_Keep(reason) == reason

\* lines 429-431: once traced, the accumulator's reason is emptied
ClearReason(reason) == <<>>

\* line 424 divides by bill_amount: decimal.DivisionByZero or
\* decimal.InvalidOperation (0 / 0) when it is zero
Raises(record) == record.bill_amount[1] = 0

\* AddBill that keeps the last bill only
AddBill_LastOnly(revenue_bills_, bill) == bill

\* line 387: revenue_bills += record['bill_amount']
AddBill(revenue_bills_, bill) == revenue_bills_ + bill

\* PaidTotal that forgets what was paid before
PaidTotal_CurrentOnly(prev_total_paid_tax, current_tax) == current_tax

\* line 426: the paid total after the record
PaidTotal(prev_total_paid_tax, current_tax) == prev_total_paid_tax + current_tax

\* a reset that leaves revenue_bills as it was
ResetLocals_KeepBills(L, reset_reason, month_key) ==
    [L EXCEPT !.accumulated_income = 0,
              !.accumulated_tax = 0,
              !.accumulated_months = 0,
              !.monthly_accumulators = (month_key :> FreshAccumulator(reset_reason))]

\* lines 369-379: the running values are zeroed and the accumulators are
\* replaced by a new one for the record's month, which carries the reason
ResetLocals(L, reset_reason, month_key) ==
    [L EXCEPT !.accumulated_income = 0,
              !.accumulated_tax = 0,
              !.accumulated_months = 0,
              !.revenue_bills = 0,
              !.monthly_accumulators = (month_key :> FreshAccumulator(reset_reason))]

\* lines 350-494 for a record that is not skipped and does not raise;
\* L holds the locals of calculate_tax, o the parsed options
LoopBody(L, record, o, credential_num_) ==
    LET month_key == record.year_month
        bill == record.bill_amount[1]
        ma0 == IF month_key \in DOMAIN L.monthly_accumulators
               THEN L.monthly_accumulators
               ELSE L.monthly_accumulators @@ (month_key :> FreshAccumulator(<<>>))
        reset_reason == ResetReason(L.last_income_month, month_key)
        reset_needed == reset_reason # <<>>
        R == IF reset_needed
             THEN ResetLocals(L, reset_reason, month_key)
             ELSE [L EXCEPT !.monthly_accumulators = ma0]
        income0 == R.accumulated_income
        tax0 == R.accumulated_tax
        months0 == R.accumulated_months
        bills0 == R.revenue_bills
        ma1 == R.monthly_accumulators
        accum == ma1[month_key]
        accum_reason == IF reset_reason # <<>> /\ accum.reset_reason = <<>>
                        THEN reset_reason ELSE accum.reset_reason
        prev_month_total_amount == accum.total_amount
        total_amount == accum.total_amount + bill
        revenue_bills_ == AddBill(bills0, bill)
        prev_annual_accumulated_income == income0
        monthly_income == MonthlyIncome(o.income_type, total_amount)
        accumulated_income_ ==
            AccumulateIncome(accum.started, prev_annual_accumulated_income,
                             accum.monthly_income, monthly_income)
        accumulated_months_ == CountMonth(accum.started, months0)
        accumulated_deduction == 5000000 * accumulated_months_
        accumulated_special == o.accumulated_special_deduction * accumulated_months_
        accumulated_additional == o.accumulated_additional_deduction * accumulated_months_
        accumulated_other == o.accumulated_other_deduction * accumulated_months_
        accumulated_pension == o.accumulated_pension_deduction * accumulated_months_
        accumulated_donation == o.accumulated_donation_deduction
        accumulated_taxable ==
            AccumulatedTaxable(accumulated_income_, accumulated_deduction,
                               accumulated_special, accumulated_additional,
                               accumulated_other, accumulated_pension,
                               accumulated_donation)
        rd == get_tax_rate_and_deduction(accumulated_taxable)
        tax_rate == rd[1]
        quick_deduction == rd[2]
        accumulated_total_tax == AccumulatedTotalTax(accumulated_taxable)
        prev_total_paid_tax == tax0
        rounded_accumulated_tax == QuantizeHalfUp(accumulated_total_tax)
        rounded_prev_paid_tax == QuantizePaid(prev_total_paid_tax)
        current_tax == CurrentTax(accumulated_total_tax, prev_total_paid_tax)
        effective_tax_rate == EffectiveRate(current_tax, bill)
        paid_tax == accum.paid_tax + current_tax
        accumulated_tax_ == PaidTotal(prev_total_paid_tax, current_tax)
        calculation_steps ==
            [reset_reason |-> accum_reason,
             prev_month_total_amount |-> Round2(prev_month_total_amount),
             bill_amount |-> Round2(bill),
             total_amount |-> Round2(total_amount),
             monthly_income |-> Round2(monthly_income),
             prev_accumulated_income |-> Round2(prev_annual_accumulated_income),
             accumulated_income |-> Round2(accumulated_income_),
             accumulated_months |-> accumulated_months_,
             accumulated_deduction |-> Round2(accumulated_deduction),
             accumulated_special |-> Round2(accumulated_special),
             accumulated_additional |-> Round2(accumulated_additional),
             accumulated_other |-> Round2(accumulated_other),
             accumulated_pension |-> Round2(accumulated_pension),
             accumulated_donation |-> Round2(accumulated_donation),
             accumulated_taxable |-> Round2(accumulated_taxable),
             tax_rate |-> tax_rate,
             quick_deduction |-> Round2(quick_deduction),
             accumulated_total_tax |-> FineFormat2(accumulated_total_tax),
             prev_total_paid_tax |-> Round2(prev_total_paid_tax),
             rounded_prev_paid_tax |-> Round2(rounded_prev_paid_tax),
             current_tax |-> Round2(current_tax),
             paid_tax |-> Round2(paid_tax),
             effective_tax_rate |-> effective_tax_rate]
        result ==
            [batch_no |-> record.batch_no,
             credential_num |-> credential_num_,
             year_month |-> month_key,
             bill_amount |-> bill,
             tax |-> Round2(current_tax),
             income_type |-> o.income_type,
             income_amount |-> Round2(bill),
             prev_accumulated_income |-> Round2(prev_annual_accumulated_income),
             accumulated_income |-> Round2(accumulated_income_),
             accumulated_months |-> accumulated_months_,
             accumulated_deduction |-> Round2(accumulated_deduction),
             accumulated_taxable |-> Round2(accumulated_taxable),
             accumulated_special |-> Round2(accumulated_special),
             accumulated_additional |-> Round2(accumulated_additional),
             accumulated_other |-> Round2(accumulated_other),
             accumulated_pension |-> Round2(accumulated_pension),
             accumulated_donation |-> Round2(accumulated_donation),
             tax_rate |-> tax_rate,
             quick_deduction |-> Round2(quick_deduction),
             accumulated_total_tax |->
                 TotalTaxField(rounded_accumulated_tax, rounded_prev_paid_tax),
             prev_accumulated_tax |-> Round2(prev_total_paid_tax),
             accumulated_tax |-> Round2(accumulated_tax_),
             calculation_steps |-> calculation_steps,
             effective_tax_rate |-> effective_tax_rate,
             revenue_bills |-> Round2(revenue_bills_)]
    IN  [accumulated_income |-> accumulated_income_,
         accumulated_tax |-> accumulated_tax_,
         accumulated_months |-> accumulated_months_,
         revenue_bills |-> revenue_bills_,
         last_income_month |-> Some(month_key),
         monthly_accumulators |->
             [ma1 EXCEPT ![month_key] =
                 [nrecords |-> accum.nrecords + 1,
                  total_amount |-> total_amount,
                  paid_tax |-> paid_tax,
                  monthly_income |-> monthly_income,
                  started |-> TRUE,
                  reset_reason |-> ClearReason(accum_reason)]],
         results |-> Append(L.results, result)]

\* a skip that takes the record's month for the last income month
SkipStep_TouchMonth(L, record) ==
    [L EXCEPT !.last_income_month = Some(record.year_month)]

\* lines 346-348: continue, every local as it was
SkipStep(L, record) == L

\* lines 335-341: the locals of a call, created fresh
FreshLocals ==
    [accumulated_income |-> 0, accumulated_tax |-> 0, accumulated_months |-> 0,
     revenue_bills |-> 0, last_income_month |-> None,
     monthly_accumulators |-> <<>>, results |-> <<>>]

\* lines 345-500 as a function: the rows returned for the sorted records
\* from position k on, [] once a record raises
RECURSIVE RunLoop(_, _, _, _, _)
RunLoop(L, sorted, k, o, credential_num_) ==
    IF k > Len(sorted) THEN L.results
    ELSE IF InvalidAmount(sorted[k])
         THEN RunLoop(SkipStep(L, sorted[k]), sorted, k + 1, o, credential_num_)
    ELSE IF Raises(sorted[k]) THEN <<>>
    ELSE RunLoop(LoopBody(L, sorted[k], o, credential_num_), sorted, k + 1, o,
                 credential_num_)

\* calculate_tax on given records as a function of its arguments
calculate_tax(credential_num_, records_, kw) ==
    IF records_ = <<>> THEN <<>>
    ELSE RunLoop(FreshLocals, SortRecords(records_), 1, ParseOptions(kw),
                 credential_num_)

(***************************************************************************)
(* State                                                                   *)
(***************************************************************************)
VARIABLES
    \* the collaborators
    mock_data,              \* self.mock_data: None or Some(list of records)
    table,                  \* the settled rows the queries select from
    \* calculate_tax_by_batch: arguments and locals
    year,
    batch_no,               \* None or Some(batch number)
    kwargs,                 \* credential_num, use_mock and the tax options
    people_to_process,
    records_by_person,
    all_results,
    person,                 \* position in the loop over people_to_process
    \* calculate_tax: arguments and locals
    credential_num,
    records,                \* None or Some(list of records)
    sorted_records,
    idx,                    \* position in the loop over sorted_records
    accumulated_income,
    accumulated_tax,
    accumulated_months,
    revenue_bills,
    last_income_month,
    monthly_accumulators,
    results,
    \* control
    pc,
    caller,                 \* where calculate_tax returns to
    ret,                    \* None, or Some(list) once the outer call returned
    raised,                 \* the outer call raised to its caller
    \* get_tax_rate_and_deduction called on its own
    taxable_income,
    bracket,
    \* calculate_tax called by several threads on one instance
    calls,                  \* per thread: arguments, position, result
    frames,                 \* per frame: the locals of lines 335-341
    \* EnterpriseSettlementService._process_enterprise
    settle,                 \* the service, the task and the locals of the call
    posts                   \* the calls that sent a POST so far, in order

envVars == <<mock_data, table>>
batchVars == <<year, batch_no, kwargs, people_to_process, records_by_person,
               all_results, person>>
argVars == <<credential_num, records>>
localVars == <<sorted_records, idx, accumulated_income, accumulated_tax,
               accumulated_months, revenue_bills, last_income_month,
               monthly_accumulators, results>>
ctlVars == <<pc, caller, ret, raised>>
probeVars == <<taxable_income, bracket>>
threadVars == <<calls, frames>>
settleVars == <<settle, posts>>
vars == <<envVars, batchVars, argVars, localVars, ctlVars, probeVars, threadVars,
          settleVars>>

Locals ==
    [accumulated_income |-> accumulated_income,
     accumulated_tax |-> accumulated_tax,
     accumulated_months |-> accumulated_months,
     revenue_bills |-> revenue_bills,
     last_income_month |-> last_income_month,
     monthly_accumulators |-> monthly_accumulators,
     results |-> results]

SetLocals(L) ==
    /\ accumulated_income' = L.accumulated_income
    /\ accumulated_tax' = L.accumulated_tax
    /\ accumulated_months' = L.accumulated_months
    /\ revenue_bills' = L.revenue_bills
    /\ last_income_month' = L.last_income_month
    /\ monthly_accumulators' = L.monthly_accumulators
    /\ results' = L.results

\* state before any call: nothing computed yet
Idle ==
    /\ people_to_process = <<>>
    /\ records_by_person = <<>>
    /\ all_results = <<>>
    /\ person = 1
    /\ sorted_records = <<>>
    /\ idx = 1
    /\ accumulated_income = 0
    /\ accumulated_tax = 0
    /\ accumulated_months = 0
    /\ revenue_bills = 0
    /\ last_income_month = None
    /\ monthly_accumulators = <<>>
    /\ results = <<>>
    /\ ret = None
    /\ raised = FALSE

\* no thread has called calculate_tax
NoThreads ==
    /\ calls = <<>>
    /\ frames = <<>>

\* no settlement is being processed
NoSettlement ==
    /\ settle = <<>>
    /\ posts = <<>>

TaxOptions == {d @@ [income_type |-> t] : d \in Deductions, t \in IncomeTypes}

(***************************************************************************)
(* calculate_tax(credential_num, year, records, **kwargs) called directly  *)
(* with a list of records of one person                                    *)
(***************************************************************************)
\* every valid amount at every time; None, a negative amount and 0.00 at
\* two times each; 10000.62, whose income at 0.8 has three places, once
TaxRecords ==
    {BillingRecord(t, a, "B1", "A") : t \in PaymentTimes, a \in ValidAmounts}
    \cup {BillingRecord(20251010, Some(10000620), "B1", "A")}
    \cup {BillingRecord(t, None, "B1", "A") : t \in {20251010, 20251115}}
    \cup {BillingRecord(t, Some(-1000), "B1", "A") : t \in {20251115, 20260105}}
    \cup {BillingRecord(t, Some(0), "B1", "A") : t \in {20251020, 20251220}}

InitTax ==
    /\ Idle
    /\ NoThreads
    /\ NoSettlement
    /\ mock_data = None
    /\ table = {}
    /\ year = 2025
    /\ batch_no = None
    /\ kwargs \in {o @@ [credential_num |-> None, use_mock |-> FALSE] : o \in TaxOptions}
    /\ credential_num = "A"
    /\ records \in {Some(s) : s \in SeqsUpTo(TaxRecords, MaxRecords)}
    /\ pc = "calculate_tax"
    /\ caller = "direct"
    /\ taxable_income = 0
    /\ bracket = None

(***************************************************************************)
(* The record providers                                                    *)
(***************************************************************************)
\* the sequences that list the set S once each
Orderings(S) ==
    {s \in [1..Cardinality(S) -> S] :
        \A i, j \in 1..Cardinality(S) : i < j => s[i] # s[j]}

\* lines 70-85: the row as a record, a NULL amount read as 0.00
RowToRecord(row) ==
    [row EXCEPT !.bill_amount = IF row.bill_amount = None THEN Some(0) ELSE @]

\* the WHERE clause on the dates, lines 52-56
InYear(row, year_) == YearOf(YearMonthOf(row.payment_time)) = year_

\* ORDER BY COALESCE(w.payment_over_time, w.create_time), line 65: rows of
\* equal time come in any order
ByPaymentTime(s) ==
    \A i, j \in DOMAIN s : i < j => s[i].payment_time <= s[j].payment_time

\* _get_mock_records, lines 503-534: every mock record is given the
\* requested credential number and the first day of its month
MockRecord(r, credential_num_) ==
    [payment_time |-> r.year_month * 100 + 1,
     bill_amount |-> r.bill_amount,
     year_month |-> r.year_month,
     batch_no |-> r.batch_no,
     credential_num |-> credential_num_]

get_mock_records(credential_num_, year_) ==
    LET enriched == [k \in 1..Len(mock_data[1]) |->
                        MockRecord(mock_data[1][k], credential_num_)]
        Keep(r) == YearOf(r.year_month) = year_
    IN  SelectSeq(enriched, Keep)

\* get_records, lines 22-90: the possible results; the query fails
\* (pymysql.Error) into an empty list
get_records(credential_num_, year_) ==
    IF mock_data # None
    THEN {get_mock_records(credential_num_, year_)}
    ELSE {[k \in DOMAIN s |-> RowToRecord(s[k])] :
            s \in {q \in Orderings({row \in table :
                                      row.credential_num = credential_num_
                                      /\ InYear(row, year_)}) :
                     ByPaymentTime(q)}}
         \cup {<<>>}

(***************************************************************************)
(* calculate_tax                                                           *)
(***************************************************************************)
\* calculate_tax hands rows back to its caller: the direct caller, or one
\* of the two loops of calculate_tax_by_batch (lines 261, 298)
Return(rows) ==
    IF caller = "direct"
    THEN /\ pc' = "done"
         /\ ret' = Some(rows)
         /\ UNCHANGED <<all_results, person>>
    ELSE /\ pc' = caller
         /\ all_results' = all_results \o rows
         /\ person' = person + 1
         /\ UNCHANGED ret

\* the exception of line 424 left uncaught: it reaches the caller of
\* calculate_tax_by_batch through lines 302-304
OnException_Propagate ==
    /\ pc' = "done"
    /\ raised' = TRUE
    /\ UNCHANGED <<ret, all_results, person>>

\* the exception caught, the rows computed so far returned
OnException_Partial ==
    /\ Return(results)
    /\ UNCHANGED raised

\* lines 498-500: the exception is caught and calculate_tax returns []
OnException ==
    /\ Return(<<>>)
    /\ UNCHANGED raised

\* lines 311-343: records fetched when not given, no records -> [],
\* otherwise fresh locals and the sort
CalcEnter ==
    /\ pc = "calculate_tax"
    /\ \E recs \in (IF records = None THEN get_records(credential_num, year)
                                     ELSE {records[1]}) :
         /\ records' = Some(recs)
         /\ IF recs = <<>>
            THEN /\ Return(<<>>)
                 /\ UNCHANGED localVars
            ELSE /\ SetLocals(FreshLocals)
                 /\ sorted_records' = SortRecords(recs)
                 /\ idx' = 1
                 /\ pc' = "loop"
                 /\ UNCHANGED <<ret, all_results, person>>
    /\ UNCHANGED <<threadVars, settleVars, envVars, year, batch_no, kwargs, people_to_process,
                   records_by_person, credential_num, caller, raised, probeVars>>

\* lines 346-348
SkipInvalid ==
    /\ pc = "loop"
    /\ idx <= Len(sorted_records)
    /\ InvalidAmount(sorted_records[idx])
    /\ SetLocals(SkipStep(Locals, sorted_records[idx]))
    /\ idx' = idx + 1
    /\ UNCHANGED <<threadVars, settleVars, envVars, batchVars, argVars, sorted_records, ctlVars, probeVars>>

\* lines 350-495
ProcessRecord ==
    /\ pc = "loop"
    /\ idx <= Len(sorted_records)
    /\ ~InvalidAmount(sorted_records[idx])
    /\ ~Raises(sorted_records[idx])
    /\ SetLocals(LoopBody(Locals, sorted_records[idx], ParseOptions(kwargs),
                          credential_num))
    /\ idx' = idx + 1
    /\ UNCHANGED <<threadVars, settleVars, envVars, batchVars, argVars, sorted_records, ctlVars, probeVars>>

\* line 424 raises, lines 498-500 catch it and return []
RecordRaises ==
    /\ pc = "loop"
    /\ idx <= Len(sorted_records)
    /\ ~InvalidAmount(sorted_records[idx])
    /\ Raises(sorted_records[idx])
    /\ OnException
    /\ UNCHANGED <<threadVars, settleVars, envVars, year, batch_no, kwargs, people_to_process,
                   records_by_person, argVars, localVars, caller, probeVars>>

\* line 497
CalcReturn ==
    /\ pc = "loop"
    /\ idx > Len(sorted_records)
    /\ Return(results)
    /\ UNCHANGED <<threadVars, settleVars, envVars, year, batch_no, kwargs, people_to_process,
                   records_by_person, argVars, localVars, caller, raised, probeVars>>

NextTax == CalcEnter \/ SkipInvalid \/ ProcessRecord \/ RecordRaises \/ CalcReturn

SpecTax == InitTax /\ [][NextTax]_vars

(***************************************************************************)
(* calculate_tax_by_batch                                                  *)
(***************************************************************************)
\* str.strip() on the strings of the model
Strip(str) == IF str = " " THEN "" ELSE str

\* `not x` of an optional string
Falsy(x) == IF x = None THEN TRUE ELSE x[1] = ""

\* not credential_num or credential_num.strip() == "", lines 211 and 267
BlankCredential(c) == IF Falsy(c) THEN TRUE ELSE Strip(c[1]) = ""

\* the credential number generated at line 213
MockCredential == "MOCK"

\* lines 210-273: the branch a call takes
Branch(use_mock, batch_no_, c) ==
    IF use_mock
    THEN IF Falsy(batch_no_) /\ BlankCredential(c) THEN "mock_default"
         ELSE IF ~Falsy(c) THEN "mock_person"
         ELSE "mock_nobody"
    ELSE IF ~Falsy(batch_no_) THEN "batch"
    ELSE IF ~BlankCredential(c) THEN "single"
    ELSE "invalid"

\* the outcome of the last branch with the arguments rejected as the
\* endpoint does (ValueError)
InvalidArguments_Raise == [ret |-> None, raised |-> TRUE]

\* lines 271-273: logger.error and return []
InvalidArguments == [ret |-> Some(<<>>), raised |-> FALSE]

\* the call rejected when nobody is found
NoPeople_Raise == [ret |-> None, raised |-> TRUE]

\* lines 225-227 and 275-277: logger.warning and return []
NoPeople == [ret |-> Some(<<>>), raised |-> FALSE]

Range(s) == {s[k] : k \in DOMAIN s}

\* the elements of s in order of first appearance
RECURSIVE Dedupe(_)
Dedupe(s) ==
    IF s = <<>> THEN <<>>
    ELSE LET d == Dedupe(SubSeq(s, 1, Len(s) - 1))
         IN  IF s[Len(s)] \in Range(d) THEN d ELSE Append(d, s[Len(s)])

\* _get_mock_people_from_batch, lines 536-550: a dict keyed by credential
get_mock_people_from_batch(batch_no_, c) ==
    LET Match(r) == /\ r.batch_no = batch_no_
                    /\ (Falsy(c) \/ r.credential_num = c[1])
        matching == SelectSeq(mock_data[1], Match)
    IN  Dedupe([k \in DOMAIN matching |-> matching[k].credential_num])

\* _get_people_from_batch, lines 92-129: the possible lists of credential
\* numbers; SELECT DISTINCT gives them in any order, a failing query none
get_people_from_batch(batch_no_, c) ==
    IF mock_data # None
    THEN {get_mock_people_from_batch(batch_no_, c)}
    ELSE Orderings({row.credential_num : row \in
                      {r \in table : /\ r.batch_no = batch_no_
                                     /\ (Falsy(c) \/ r.credential_num = c[1])
                                     /\ r.credential_num # ""}})
         \cup {<<>>}

\* ORDER BY w.credential_num, COALESCE(w.payment_over_time, w.create_time)
ByCredentialAndTime(s) ==
    \A i, j \in DOMAIN s : i < j =>
        \/ s[i].credential_num = s[j].credential_num
           /\ s[i].payment_time <= s[j].payment_time
        \/ s[i].credential_num # s[j].credential_num
           /\ \A k \in DOMAIN s :
                 s[k].credential_num = s[i].credential_num
                 => \A l \in DOMAIN s :
                       s[l].credential_num = s[j].credential_num => k < l

\* the bulk query restricted to the rows of the requested batch
get_records_for_people_OfBatch(credential_nums, year_) ==
    IF credential_nums = <<>> THEN {<<>>}
    ELSE {[k \in DOMAIN s |-> RowToRecord(s[k])] :
            s \in {q \in Orderings({row \in table :
                                      /\ row.credential_num \in Range(credential_nums)
                                      /\ InYear(row, year_)
                                      /\ Some(row.batch_no) = batch_no}) :
                     ByCredentialAndTime(q)}}
         \cup {<<>>}

\* _get_records_for_people, lines 131-196: every record of the year of the
\* people, whatever its batch; never the mock data
get_records_for_people(credential_nums, year_) ==
    IF credential_nums = <<>> THEN {<<>>}
    ELSE {[k \in DOMAIN s |-> RowToRecord(s[k])] :
            s \in {q \in Orderings({row \in table :
                                      /\ row.credential_num \in Range(credential_nums)
                                      /\ InYear(row, year_)}) :
                     ByCredentialAndTime(q)}}
         \cup {<<>>}

\* a grouping that hands every person the whole list
GroupByPerson_NoPartition(all_year_records) ==
    [c \in {all_year_records[k].credential_num : k \in DOMAIN all_year_records} |->
        all_year_records]

\* lines 235-237
GroupByPerson(all_year_records) ==
    [c \in {all_year_records[k].credential_num : k \in DOMAIN all_year_records} |->
        LET Mine(r) == r.credential_num = c
        IN  SelectSeq(all_year_records, Mine)]

\* records_by_person.get(p_credential_num, [])
RecordsOf(by_person, c) == IF c \in DOMAIN by_person THEN by_person[c] ELSE <<>>

\* line 265
FilterBatch(rows, batch_no_) ==
    LET OfBatch(r) == r.batch_no = batch_no_
    IN  SelectSeq(rows, OfBatch)

\* lines 202-277: the branch taken, the people found, the bulk query and
\* the grouping; the early returns
BatchEnter ==
    /\ pc = "calculate_tax_by_batch"
    /\ LET br == Branch(kwargs.use_mock, batch_no, kwargs.credential_num)
       IN  IF br = "batch"
           THEN \E people \in get_people_from_batch(batch_no[1], kwargs.credential_num) :
                  IF people = <<>>
                  THEN /\ ret' = NoPeople.ret
                       /\ raised' = NoPeople.raised
                       /\ pc' = "done"
                       /\ UNCHANGED <<people_to_process, records_by_person>>
                  ELSE \E all_year_records \in get_records_for_people(people, year) :
                         /\ people_to_process' = people
                         /\ records_by_person' = GroupByPerson(all_year_records)
                         /\ pc' = "batch_loop"
                         /\ UNCHANGED <<ret, raised>>
           ELSE IF br = "invalid"
           THEN /\ ret' = InvalidArguments.ret
                /\ raised' = InvalidArguments.raised
                /\ pc' = "done"
                /\ UNCHANGED <<people_to_process, records_by_person>>
           ELSE IF br = "mock_nobody"
           THEN /\ ret' = NoPeople.ret
                /\ raised' = NoPeople.raised
                /\ pc' = "done"
                /\ UNCHANGED <<people_to_process, records_by_person>>
           ELSE /\ people_to_process' =
                      IF br = "mock_default" THEN <<MockCredential>>
                      ELSE <<kwargs.credential_num[1]>>
                /\ pc' = "unified_loop"
                /\ UNCHANGED <<records_by_person, ret, raised>>
    /\ UNCHANGED <<threadVars, settleVars, envVars, year, batch_no, kwargs, all_results, person,
                   argVars, localVars, caller, probeVars>>

\* lines 240-246: a person without records of the year is skipped
BatchSkipPerson ==
    /\ pc = "batch_loop"
    /\ person <= Len(people_to_process)
    /\ RecordsOf(records_by_person, people_to_process[person]) = <<>>
    /\ person' = person + 1
    /\ UNCHANGED <<threadVars, settleVars, envVars, year, batch_no, kwargs, people_to_process,
                   records_by_person, all_results, argVars, localVars,
                   ctlVars, probeVars>>

\* lines 248-260: calculate_tax on the person's records of the whole year
BatchCallPerson ==
    /\ pc = "batch_loop"
    /\ person <= Len(people_to_process)
    /\ RecordsOf(records_by_person, people_to_process[person]) # <<>>
    /\ credential_num' = people_to_process[person]
    /\ records' = Some(RecordsOf(records_by_person, people_to_process[person]))
    /\ caller' = "batch_loop"
    /\ pc' = "calculate_tax"
    /\ UNCHANGED <<threadVars, settleVars, envVars, batchVars, localVars, ret, raised, probeVars>>

\* lines 263-265: the rows of the requested batch are returned
BatchReturn ==
    /\ pc = "batch_loop"
    /\ person > Len(people_to_process)
    /\ ret' = Some(FilterBatch(all_results, batch_no[1]))
    /\ pc' = "done"
    /\ UNCHANGED <<threadVars, settleVars, envVars, batchVars, argVars, localVars, caller, raised, probeVars>>

\* lines 280-297: calculate_tax fetches the person's records itself
UnifiedCallPerson ==
    /\ pc = "unified_loop"
    /\ person <= Len(people_to_process)
    /\ IF people_to_process[person] = ""
       THEN /\ person' = person + 1
            /\ UNCHANGED <<argVars, caller, pc>>
       ELSE /\ credential_num' = people_to_process[person]
            /\ records' = None
            /\ caller' = "unified_loop"
            /\ pc' = "calculate_tax"
            /\ UNCHANGED person
    /\ UNCHANGED <<threadVars, settleVars, envVars, year, batch_no, kwargs, people_to_process,
                   records_by_person, all_results, localVars, ret, raised,
                   probeVars>>

\* line 300
UnifiedReturn ==
    /\ pc = "unified_loop"
    /\ person > Len(people_to_process)
    /\ ret' = Some(all_results)
    /\ pc' = "done"
    /\ UNCHANGED <<threadVars, settleVars, envVars, batchVars, argVars, localVars, caller, raised, probeVars>>

\* the rows of the table: 10000.00 for both people in both batches in
\* 2025-10 and 2025-11, a NULL, a zero and a negative amount, a row of the
\* next year
TableRows ==
    {BillingRecord(t, Some(10000000), b, c) :
        t \in {20251010, 20251115}, b \in BatchNos, c \in CredentialNums}
    \cup {BillingRecord(20251010, None, "B1", "A"),
          BillingRecord(20251115, Some(0), "B1", "B"),
          BillingRecord(20251010, Some(-1000), "B2", "B"),
          BillingRecord(20260105, Some(10000000), "B1", "A")}

\* the records of a request's mock_data
MockRows ==
    {[year_month |-> 202510, bill_amount |-> Some(10000000), batch_no |-> "B1",
      credential_num |-> "A"],
     [year_month |-> 202511, bill_amount |-> Some(10000000), batch_no |-> "B2",
      credential_num |-> "B"],
     [year_month |-> 202510, bill_amount |-> Some(0), batch_no |-> "B1",
      credential_num |-> "A"]}

CredentialArgs == {None, Some(""), Some(" "), Some("A")}

Init ==
    /\ Idle
    /\ NoThreads
    /\ NoSettlement
    /\ mock_data \in {None} \cup {Some(q) : q \in SeqsUpTo(MockRows, MaxRecords)}
    /\ table \in {t \in SUBSET TableRows :
                    Cardinality(t) + (IF mock_data = None THEN 0 ELSE Len(mock_data[1]))
                        <= MaxRecords}
    /\ year = 2025
    /\ batch_no \in {None, Some("B1")}
    /\ kwargs \in {NoDeductions @@ [income_type |-> t, credential_num |-> c,
                                   use_mock |-> u] :
                     t \in IncomeTypes, c \in CredentialArgs, u \in BOOLEAN}
    /\ credential_num = ""
    /\ records = None
    /\ pc = "calculate_tax_by_batch"
    /\ caller = "none"
    /\ taxable_income = 0
    /\ bracket = None

Next ==
    \/ BatchEnter
    \/ BatchSkipPerson
    \/ BatchCallPerson
    \/ BatchReturn
    \/ UnifiedCallPerson
    \/ UnifiedReturn
    \/ CalcEnter
    \/ SkipInvalid
    \/ ProcessRecord
    \/ RecordRaises
    \/ CalcReturn

Spec == Init /\ [][Next]_vars

(***************************************************************************)
(* get_tax_rate_and_deduction called on its own                            *)
(***************************************************************************)
\* the six thresholds, in mills
Thresholds == <<36000000, 144000000, 300000000, 420000000, 660000000, 960000000>>

\* taxable incomes around every threshold (0.001, 0.01, 1 and 1000 yuan
\* below and above), zero, a negative one and a large one
TaxableIncomes ==
    {Thresholds[i] + d : i \in 1..6,
                         d \in {-1000000, -1000, -10, -1, 0, 1, 10, 1000, 1000000}}
    \cup {-5000000, 0, 2000000000}

InitBracket ==
    /\ Idle
    /\ NoThreads
    /\ NoSettlement
    /\ mock_data = None
    /\ table = {}
    /\ year = 2025
    /\ batch_no = None
    /\ kwargs = NoDeductions @@ [income_type |-> 1, credential_num |-> None,
                                 use_mock |-> FALSE]
    /\ credential_num = "A"
    /\ records = None
    /\ pc = "get_tax_rate_and_deduction"
    /\ caller = "direct"
    /\ taxable_income \in TaxableIncomes
    /\ bracket = None

\* lines 556-573
Lookup ==
    /\ pc = "get_tax_rate_and_deduction"
    /\ bracket' = Some(get_tax_rate_and_deduction(taxable_income))
    /\ pc' = "done"
    /\ UNCHANGED <<threadVars, settleVars, envVars, batchVars, argVars, localVars, caller, ret, raised,
                   taxable_income>>

NextBracket == Lookup

SpecBracket == InitBracket /\ [][NextBracket]_vars

(***************************************************************************)
(* calculate_tax called by two threads on one TaxCalculator instance       *)
(* with given records; every step of a call is one step of its thread     *)
(***************************************************************************)
Threads == {1, 2}

\* the locals of every call kept in one place, on the instance
Frame_Shared(t) == 1

\* lines 335-343: the accumulators are local variables of the call, one
\* frame per call
Frame(t) == t

\* a record of 2025-10, one of 2025-12 (a gap) and one of amount 0.00
ThreadRecords ==
    {BillingRecord(20251010, Some(10000000), "B1", "A"),
     BillingRecord(20251220, Some(41000250), "B1", "A"),
     BillingRecord(20251115, Some(0), "B1", "A")}

\* the records of the second thread: the record of 2025-10 and a null
\* amount
OtherThreadRecords ==
    {BillingRecord(20251010, Some(10000000), "B1", "A"),
     BillingRecord(20251115, None, "B1", "A")}

NewCall(c, recs, kw) ==
    [credential_num |-> c, records |-> recs, kw |-> kw, pc |-> "calculate_tax",
     sorted_records |-> <<>>, idx |-> 1, ret |-> None, overlapped |-> FALSE]

InitThreads ==
    /\ Idle
    /\ NoSettlement
    /\ mock_data = None
    /\ table = {}
    /\ year = 2025
    /\ batch_no = None
    /\ kwargs = NoDeductions @@ [income_type |-> 1, credential_num |-> None,
                                 use_mock |-> FALSE]
    /\ credential_num = ""
    /\ records = None
    /\ pc = "threads"
    /\ caller = "none"
    /\ taxable_income = 0
    /\ bracket = None
    /\ \E r1 \in SeqsUpTo(ThreadRecords, MaxRecords),
          r2 \in SeqsUpTo(OtherThreadRecords, MaxRecords), c2 \in CredentialNums :
          calls = (1 :> NewCall("A", r1, NoDeductions @@ [income_type |-> 1]))
                  @@ (2 :> NewCall(c2, r2, NoDeductions @@ [income_type |-> 1]))
    /\ frames = [f \in Threads |-> FreshLocals]

\* thread t took a step: the calls of the other threads that are in their
\* loop have been overlapped
StepOf(t, call) ==
    [u \in Threads |->
        IF u = t THEN call
        ELSE IF calls[u].pc = "loop" THEN [calls[u] EXCEPT !.overlapped = TRUE]
        ELSE calls[u]]

\* lines 329-343
ThreadEnter(t) ==
    /\ calls[t].pc = "calculate_tax"
    /\ IF calls[t].records = <<>>
       THEN /\ calls' = StepOf(t, [calls[t] EXCEPT !.pc = "done", !.ret = Some(<<>>)])
            /\ UNCHANGED frames
       ELSE /\ calls' = StepOf(t, [calls[t] EXCEPT
                                     !.pc = "loop",
                                     !.sorted_records = SortRecords(calls[t].records),
                                     !.idx = 1])
            /\ frames' = [frames EXCEPT ![Frame(t)] = FreshLocals]
    /\ UNCHANGED <<settleVars, envVars, batchVars, argVars, localVars, ctlVars, probeVars>>

\* lines 346-348
ThreadSkip(t) ==
    /\ calls[t].pc = "loop"
    /\ calls[t].idx <= Len(calls[t].sorted_records)
    /\ InvalidAmount(calls[t].sorted_records[calls[t].idx])
    /\ calls' = StepOf(t, [calls[t] EXCEPT !.idx = @ + 1])
    /\ frames' = [frames EXCEPT ![Frame(t)] =
                     SkipStep(@, calls[t].sorted_records[calls[t].idx])]
    /\ UNCHANGED <<settleVars, envVars, batchVars, argVars, localVars, ctlVars, probeVars>>

\* lines 350-495
ThreadProcess(t) ==
    /\ calls[t].pc = "loop"
    /\ calls[t].idx <= Len(calls[t].sorted_records)
    /\ ~InvalidAmount(calls[t].sorted_records[calls[t].idx])
    /\ ~Raises(calls[t].sorted_records[calls[t].idx])
    /\ calls' = StepOf(t, [calls[t] EXCEPT !.idx = @ + 1])
    /\ frames' = [frames EXCEPT ![Frame(t)] =
                     LoopBody(@, calls[t].sorted_records[calls[t].idx],
                              ParseOptions(calls[t].kw), calls[t].credential_num)]
    /\ UNCHANGED <<settleVars, envVars, batchVars, argVars, localVars, ctlVars, probeVars>>

\* line 424 raises, lines 498-500 return []
ThreadRaises(t) ==
    /\ calls[t].pc = "loop"
    /\ calls[t].idx <= Len(calls[t].sorted_records)
    /\ ~InvalidAmount(calls[t].sorted_records[calls[t].idx])
    /\ Raises(calls[t].sorted_records[calls[t].idx])
    /\ calls' = StepOf(t, [calls[t] EXCEPT !.pc = "done", !.ret = Some(<<>>)])
    /\ UNCHANGED <<frames, settleVars, envVars, batchVars, argVars, localVars, ctlVars, probeVars>>

\* line 497
ThreadReturn(t) ==
    /\ calls[t].pc = "loop"
    /\ calls[t].idx > Len(calls[t].sorted_records)
    /\ calls' = StepOf(t, [calls[t] EXCEPT
                             !.pc = "done",
                             !.ret = Some(frames[Frame(t)].results)])
    /\ UNCHANGED <<frames, settleVars, envVars, batchVars, argVars, localVars, ctlVars, probeVars>>

NextThreads ==
    \E t \in Threads :
        \/ ThreadEnter(t)
        \/ ThreadSkip(t)
        \/ ThreadProcess(t)
        \/ ThreadRaises(t)
        \/ ThreadReturn(t)

SpecThreads == InitThreads /\ [][NextThreads]_vars

(***************************************************************************)
(* calculate_tax called with records of the first months of 2025           *)
(***************************************************************************)
\* 10000.00 in 2025-01, 2025-02 and 2025-05, 3000.00 (below the 5000
\* deducted a month), a null amount and a 0.00
ScenarioRecords ==
    {BillingRecord(20250110, Some(10000000), "B1", "A"),
     BillingRecord(20250215, Some(3000000), "B1", "A"),
     BillingRecord(20250215, Some(10000000), "B1", "A"),
     BillingRecord(20250520, Some(10000000), "B1", "A"),
     BillingRecord(20250215, None, "B1", "A"),
     BillingRecord(20250110, Some(0), "B1", "A")}

InitScenario ==
    /\ Idle
    /\ NoThreads
    /\ NoSettlement
    /\ mock_data = None
    /\ table = {}
    /\ year = 2025
    /\ batch_no = None
    /\ kwargs \in {o @@ [credential_num |-> None, use_mock |-> FALSE] : o \in TaxOptions}
    /\ credential_num = "A"
    /\ records \in {Some(s) : s \in SeqsUpTo(ScenarioRecords, MaxRecords)}
    /\ pc = "calculate_tax"
    /\ caller = "direct"
    /\ taxable_income = 0
    /\ bracket = None

SpecScenario == InitScenario /\ [][NextTax]_vars

(***************************************************************************)
(* What the rows should be, computed from the processed records alone      *)
(***************************************************************************)
Rows == 1..Len(results)

\* a reset is due between two consecutive processed records: the year
\* changed, or two or more months passed within the year
ResetDue(prev_month, month) ==
    \/ YearOf(month) # YearOf(prev_month)
    \/ MonthOf(month) - MonthOf(prev_month) >= 2

ResetAt(k) ==
    k > 1 /\ ResetDue(results[k - 1].year_month, results[k].year_month)

\* the first row of the run of rows without a reset that row k is in
RECURSIVE SegmentStart(_)
SegmentStart(k) ==
    IF k = 1 \/ ResetAt(k) THEN k ELSE SegmentStart(k - 1)

Segment(k) == SegmentStart(k)..k

SegmentMonths(k) == {results[j].year_month : j \in Segment(k)}

\* the sum of the function f over the set S
RECURSIVE SumOver(_, _)
SumOver(S, f) ==
    IF S = {} THEN 0
    ELSE LET x == CHOOSE y \in S : TRUE
         IN  f[x] + SumOver(S \ {x}, f)

\* the bills of month m among the rows of the segment of row k
MonthBills(k, m) ==
    SumOver(Segment(k),
            [j \in Segment(k) |->
                IF results[j].year_month = m THEN results[j].bill_amount ELSE 0])

IncomeOf(income_type, amount) ==
    IF income_type = 1 THEN (amount * 8) \div 10 ELSE amount

\* the annual income after row k: each month of the segment counted once
ExpectedIncome(k) ==
    SumOver(SegmentMonths(k),
            [m \in SegmentMonths(k) |->
                IncomeOf(kwargs.income_type, MonthBills(k, m))])

\* the paid total before row k
PaidBefore(k) ==
    IF k = 1 \/ ResetAt(k) THEN 0 ELSE results[k - 1].accumulated_tax

\* C1: a record two or more months after the previous one, in the same
\* year, is processed from a reset state: its row has no previous
\* income, no previous tax, one month, and a reset reason in its steps
C1_GapReset ==
    \A k \in Rows :
        (k > 1
         /\ YearOf(results[k].year_month) = YearOf(results[k - 1].year_month)
         /\ MonthOf(results[k].year_month) - MonthOf(results[k - 1].year_month) >= 2)
        => /\ results[k].prev_accumulated_income = 0
           /\ results[k].prev_accumulated_tax = 0
           /\ results[k].accumulated_months = 1
           /\ results[k].calculation_steps.reset_reason # <<>>

\* a row for 2025-12 right after a row for 2025-10 that paid tax
C1_Witness ==
    \E k \in Rows :
        /\ k > 1
        /\ results[k].year_month = 202512
        /\ results[k - 1].year_month = 202510
        /\ results[k - 1].accumulated_tax > 0
        /\ results[k].calculation_steps.reset_reason # <<>>

\* C2: a record in another year than the previous one is processed from a
\* reset state whatever the months: one month, no previous income
C2_YearReset ==
    \A k \in Rows :
        (k > 1 /\ YearOf(results[k].year_month) # YearOf(results[k - 1].year_month))
        => /\ results[k].accumulated_months = 1
           /\ results[k].prev_accumulated_income = 0

\* a row for 2026-01 right after a row for 2025-12
C2_Witness ==
    \E k \in Rows :
        /\ k > 1
        /\ results[k].year_month = 202601
        /\ results[k - 1].year_month = 202512
        /\ results[k - 1].accumulated_income > 0
        /\ results[k].accumulated_months = 1

\* C3: after every record the annual income is the sum, over the months
\* seen since the last reset, of the month's income derived from the
\* month's total: a month is counted once however many records it has
C3_ReplaceNotAdd ==
    /\ \A k \in Rows : results[k].accumulated_income = Round2(ExpectedIncome(k))
    /\ (pc = "loop" /\ results # <<>>)
           => accumulated_income = ExpectedIncome(Len(results))

\* a third record in a month that follows another month
C3_Witness ==
    \E k \in Rows :
        /\ k > 2
        /\ results[k].year_month = results[k - 1].year_month
        /\ results[k - 1].year_month # results[k - 2].year_month
        /\ ~ResetAt(k - 1)

\* C4: accumulated_months is the number of distinct months since the last
\* reset, at least 1, one more than on the previous row exactly when the
\* record is the first of its month
C4_MonthCount ==
    \A k \in Rows :
        /\ results[k].accumulated_months = Cardinality(SegmentMonths(k))
        /\ results[k].accumulated_months >= 1
        /\ (k > 1 /\ ~ResetAt(k)) =>
              results[k].accumulated_months =
                  results[k - 1].accumulated_months
                  + (IF results[k].year_month # results[k - 1].year_month THEN 1 ELSE 0)

\* two records in the second month of a segment
C4_Witness ==
    \E k \in Rows :
        /\ k > 2
        /\ results[k].accumulated_months = 2
        /\ results[k - 1].accumulated_months = 2
        /\ results[k - 2].accumulated_months = 1

\* the taxable income after row k, from the expected income and the options
ExpectedTaxable(k) ==
    LET o == ParseOptions(kwargs)
        n == Cardinality(SegmentMonths(k))
    IN  Max(0, ExpectedIncome(k) - 5000000 * n
               - o.accumulated_special_deduction * n
               - o.accumulated_additional_deduction * n
               - o.accumulated_other_deduction * n
               - o.accumulated_pension_deduction * n
               - o.accumulated_donation_deduction)

\* max(0, taxable * rate - quick deduction), unrounded
ExpectedTotalTax(k) ==
    LET t == ExpectedTaxable(k)
        rd == get_tax_rate_and_deduction(t)
    IN  FineMax0(TaxProduct(t, rd[1], rd[2]))

\* C5: the tax of a record is max(0, the cumulative tax rounded half up
\* minus the paid total before the record rounded half up)
C5_IncrementalTax ==
    \A k \in Rows :
        results[k].tax =
            Max(0, QuantizeHalfUp(ExpectedTotalTax(k)) - QuantizePaid(PaidBefore(k)))

\* a second row whose cumulative tax ends in half a cent, tax already paid
C5_Witness ==
    \E k \in Rows :
        /\ k > 1
        /\ PaidBefore(k) > 0
        /\ ExpectedTotalTax(k).f = 500
        /\ results[k].tax > 0

\* C6: tax, taxable income and cumulative tax are never negative
C6_NonNegative ==
    \A k \in Rows :
        /\ results[k].tax >= 0
        /\ results[k].accumulated_taxable >= 0
        /\ results[k].accumulated_total_tax >= 0

\* a row whose cumulative tax fell below the tax already paid
C6_Witness ==
    \E k \in Rows :
        /\ k > 1
        /\ ~ResetAt(k)
        /\ QuantizeHalfUp(ExpectedTotalTax(k)) < PaidBefore(k)
        /\ results[k].tax = 0

\* the bracket table: upper bound (inclusive), rate in percent, quick deduction
BracketTable ==
    << <<36000000, 3, 0>>, <<144000000, 10, 2520000>>,
       <<300000000, 20, 16920000>>, <<420000000, 25, 31920000>>,
       <<660000000, 30, 52920000>>, <<960000000, 35, 85920000>> >>

TopBracket == <<45, 181920000>>

\* C7: upper bounds are inclusive: a taxable income at a threshold gets the
\* bracket below it, one cent more gets the bracket above it, and every
\* income gets the first bracket whose upper bound it does not exceed
C7_BracketBounds ==
    bracket # None =>
        /\ \A i \in 1..6 :
              /\ taxable_income = BracketTable[i][1]
                    => bracket[1] = <<BracketTable[i][2], BracketTable[i][3]>>
              /\ taxable_income = BracketTable[i][1] + 10
                    => bracket[1] = IF i < 6
                                    THEN <<BracketTable[i + 1][2], BracketTable[i + 1][3]>>
                                    ELSE TopBracket
              /\ (taxable_income <= BracketTable[i][1]
                  /\ (i > 1 => taxable_income > BracketTable[i - 1][1]))
                    => bracket[1] = <<BracketTable[i][2], BracketTable[i][3]>>
        /\ taxable_income > BracketTable[6][1] => bracket[1] = TopBracket

\* the lookup of exactly 144000.00
C7_Witness ==
    /\ taxable_income = 144000000
    /\ bracket = Some(<<10, 2520000>>)

(***************************************************************************)
(* calculate_tax_by_batch: what a call returns                             *)
(***************************************************************************)
Returned == pc = "done" /\ ret # None

BatchPath ==
    Branch(kwargs.use_mock, batch_no, kwargs.credential_num) = "batch"

\* the rows of person c in a list of rows
RowsOf(rows, c) ==
    LET Mine(r) == r.credential_num = c
    IN  SelectSeq(rows, Mine)

\* the records of the year of person c in the table, of whatever batch
YearRecords(c) ==
    {RowToRecord(row) : row \in {r \in table : r.credential_num = c /\ InYear(r, year)}}

\* what person c gets alone: calculate_tax on the records the bulk query
\* gave for c, then the rows of the requested batch
AloneRows(c) ==
    FilterBatch(calculate_tax(c, RecordsOf(records_by_person, c), kwargs), batch_no[1])

PersonFails(c) ==
    \E k \in DOMAIN RecordsOf(records_by_person, c) :
        RecordsOf(records_by_person, c)[k].bill_amount = Some(0)

\* the conclusion of C8 for the rows returned
BatchRowsOverWholeYear ==
    /\ \A k \in DOMAIN ret[1] : Some(ret[1][k].batch_no) = batch_no
    /\ \A c \in DOMAIN records_by_person :
          /\ Range(records_by_person[c]) = YearRecords(c)
          /\ Len(records_by_person[c]) = Cardinality(YearRecords(c))
    /\ \A c \in Range(people_to_process) :
          \A k \in DOMAIN RowsOf(ret[1], c) :
             /\ RowsOf(ret[1], c)[k] \in Range(calculate_tax(c, RecordsOf(records_by_person, c), kwargs))
    /\ \A k \in DOMAIN ret[1] : ret[1][k].credential_num \in Range(people_to_process)

\* C8 as stated: whenever a batch number is given, the returned rows are
\* those of the batch and their totals are over all records of the year
C8_Original ==
    (Returned /\ ~Falsy(batch_no)) => BatchRowsOverWholeYear

\* C8 amended: with a batch number and without use_mock, every returned
\* row has the requested batch_no, and it is a row of calculate_tax run on
\* all records of the year of its person, those of other batches included
C8_BatchFilter ==
    (Returned /\ BatchPath) => BatchRowsOverWholeYear

\* one row returned, for the second month of its person: the first
\* month's record is of the other batch
C8_Witness ==
    /\ Returned
    /\ BatchPath
    /\ Len(ret[1]) = 1
    /\ ret[1][1].accumulated_months = 2
    /\ ret[1][1].revenue_bills = 20000000

NeitherGiven == Falsy(batch_no) /\ BlankCredential(kwargs.credential_num)

\* C9 as stated: with neither a batch number nor a credential number the
\* call raises and returns no list
C9_Original ==
    (pc = "done" /\ NeitherGiven) => (raised /\ ret = None)

\* C9 amended: with neither, the call does not raise; without use_mock it
\* returns an empty list, with use_mock the list computed for a generated
\* credential number
C9_ReturnsEmpty ==
    (pc = "done" /\ NeitherGiven) =>
        /\ ~raised
        /\ ret # None
        /\ ~kwargs.use_mock => ret = Some(<<>>)

\* a call with a blank credential number on a table with rows
C9_Witness ==
    /\ pc = "done"
    /\ batch_no = None
    /\ kwargs.credential_num = Some(" ")
    /\ ~kwargs.use_mock
    /\ table # {}
    /\ ret = Some(<<>>)

\* C10: in a batch call a person whose calculation fails contributes no
\* rows, and every other person contributes the rows calculate_tax gives
\* on that person's records alone
C10_FailureIsolated ==
    (pc = "done" /\ BatchPath /\ people_to_process # <<>>) =>
        /\ ret # None
        /\ \A c \in Range(people_to_process) :
              IF PersonFails(c)
              THEN RowsOf(ret[1], c) = <<>>
              ELSE RowsOf(ret[1], c) = AloneRows(c)

\* the first person fails, the second has rows
C10_Witness ==
    /\ Returned
    /\ BatchPath
    /\ Len(people_to_process) = 2
    /\ PersonFails(people_to_process[1])
    /\ ~PersonFails(people_to_process[2])
    /\ RowsOf(ret[1], people_to_process[2]) # <<>>

(***************************************************************************)
(* calculate_tax: invalid records, row count and order                     *)
(***************************************************************************)
\* the records of a list that line 346 does not skip
ValidRecords(recs) ==
    LET Valid(r) == ~InvalidAmount(r)
    IN  SelectSeq(recs, Valid)

DirectDone == pc = "done" /\ caller = "direct"

\* C11: calculate_tax returns for a list of records the rows it returns
\* for the list without the records of null or negative amount
C11_InvalidSkipped ==
    DirectDone =>
        ret = Some(calculate_tax(credential_num, ValidRecords(records[1]), kwargs))

\* an invalid record of 2025-11 between records of 2025-10 and 2025-12:
\* the row of 2025-12 starts again at one month
C11_Witness ==
    /\ DirectDone
    /\ \E i \in DOMAIN records[1] :
          /\ InvalidAmount(records[1][i])
          /\ records[1][i].year_month = 202511
    /\ Len(ret[1]) = 2
    /\ ret[1][1].year_month = 202510
    /\ ret[1][2].year_month = 202512
    /\ ret[1][2].accumulated_months = 1
    /\ ret[1][2].calculation_steps.reset_reason # <<>>

\* the records that the claims call valid: amount non-null and >= 0, in
\* ascending (year_month, payment_time) order
ValidSorted(recs) == SortRecords(ValidRecords(recs))

\* C12: calculate_tax returns one row per record of non-null amount >= 0
\* (0 included), in ascending (year_month, payment_time) order of those
\* records
C12_OneRowPerRecord ==
    DirectDone =>
        /\ Len(ret[1]) = Len(ValidSorted(records[1]))
        /\ \A k \in DOMAIN ret[1] :
              /\ ret[1][k].year_month = ValidSorted(records[1])[k].year_month
              /\ Some(ret[1][k].bill_amount) = ValidSorted(records[1])[k].bill_amount

(***************************************************************************)
(* calculate_tax: the fields of a row and its trace                        *)
(***************************************************************************)
\* max(0, accumulated_taxable * rate - quick_deduction) for row k, with
\* the rate and the quick deduction of the row, rounded half up to two
\* places
RowFormulaTax(k) ==
    QuantizeHalfUp(FineMax0(TaxProduct(ExpectedTaxable(k), results[k].tax_rate,
                                       results[k].quick_deduction)))

TraceMatchesOtherFields(row) ==
    LET steps == row.calculation_steps
    IN  /\ steps.bill_amount = row.income_amount
        /\ steps.prev_accumulated_income = row.prev_accumulated_income
        /\ steps.accumulated_income = row.accumulated_income
        /\ steps.accumulated_months = row.accumulated_months
        /\ steps.accumulated_deduction = row.accumulated_deduction
        /\ steps.accumulated_special = row.accumulated_special
        /\ steps.accumulated_additional = row.accumulated_additional
        /\ steps.accumulated_other = row.accumulated_other
        /\ steps.accumulated_pension = row.accumulated_pension
        /\ steps.accumulated_donation = row.accumulated_donation
        /\ steps.accumulated_taxable = row.accumulated_taxable
        /\ steps.tax_rate = row.tax_rate
        /\ steps.quick_deduction = row.quick_deduction
        /\ steps.prev_total_paid_tax = row.prev_accumulated_tax
        /\ steps.rounded_prev_paid_tax = row.prev_accumulated_tax
        /\ steps.current_tax = row.tax
        /\ steps.effective_tax_rate = row.effective_tax_rate

\* C14: every two-place number of the trace of a row equals the field of
\* the row it stands for: the cumulative tax of the trace equals
\* accumulated_total_tax, the tax due equals tax, the tax paid before
\* equals prev_accumulated_tax
C14_TraceMatchesFields ==
    \A k \in Rows :
        /\ TraceMatchesOtherFields(results[k])
        /\ results[k].calculation_steps.accumulated_total_tax
               = results[k].accumulated_total_tax

(***************************************************************************)
(* calculate_tax: exceptions                                               *)
(***************************************************************************)
\* a record of the list makes line 424 raise
SomeRecordRaises(recs) ==
    \E i \in DOMAIN recs : recs[i].bill_amount = Some(0)

\* C15: calculate_tax never raises to its caller, and a call in which a
\* record raises returns the empty list, whatever rows were computed
\* before the exception
C15_ExceptionGivesEmpty ==
    /\ caller = "direct" => ~raised
    /\ DirectDone =>
          /\ ret # None
          /\ SomeRecordRaises(records[1]) => ret = Some(<<>>)

\* the exception came after a row was computed
C15_Witness ==
    /\ DirectDone
    /\ SomeRecordRaises(records[1])
    /\ results # <<>>
    /\ ret = Some(<<>>)
    /\ ~raised

(***************************************************************************)
(* calculate_tax: calls of several threads                                 *)
(***************************************************************************)
ThreadDone(t) == t \in DOMAIN calls /\ calls[t].pc = "done"

\* the rows the call of thread t returns when it runs alone
AloneResult(t) ==
    calculate_tax(calls[t].credential_num, calls[t].records, calls[t].kw)

\* C16: whatever the interleaving of the calls of the threads, each call
\* returns the rows it returns alone, and two calls with the same inputs
\* return the same rows
C16_NoSharedState ==
    /\ \A t \in DOMAIN calls : ThreadDone(t) => calls[t].ret = Some(AloneResult(t))
    /\ \A t, u \in DOMAIN calls :
          (/\ ThreadDone(t) /\ ThreadDone(u)
           /\ calls[t].credential_num = calls[u].credential_num
           /\ calls[t].records = calls[u].records
           /\ calls[t].kw = calls[u].kw)
          => calls[t].ret = calls[u].ret

\* both calls returned two rows and each ran while the other was in its loop
C16_Witness ==
    /\ ThreadDone(1)
    /\ ThreadDone(2)
    /\ calls[1].overlapped
    /\ calls[2].overlapped
    /\ Len(calls[1].ret[1]) = 2
    /\ Len(calls[2].ret[1]) = 2
    /\ calls[1].ret # calls[2].ret

(***************************************************************************)
(* calculate_tax: two consecutive months                                   *)
(***************************************************************************)
\* the call of the scenario: 10000.00 in 2025-01 then 10000.00 in 2025-02,
\* income_type 1, no deduction beyond the 5000 a month
TwoMonthsCall ==
    /\ DirectDone
    /\ records = Some(<<BillingRecord(20250110, Some(10000000), "B1", "A"),
                        BillingRecord(20250215, Some(10000000), "B1", "A")>>)
    /\ kwargs.income_type = 1
    /\ \A d \in DOMAIN NoDeductions : kwargs[d] = 0

\* C17: the first row has income 8000, deduction 5000, taxable 3000, rate
\* 3% and tax 90.00; the second has 2 months, income 16000, deduction
\* 10000, taxable 6000 and tax 90.00
C17_TwoMonths ==
    TwoMonthsCall =>
        /\ Len(ret[1]) = 2
        /\ ret[1][1].accumulated_income = 8000000
        /\ ret[1][1].accumulated_deduction = 5000000
        /\ ret[1][1].accumulated_taxable = 3000000
        /\ ret[1][1].tax_rate = 3
        /\ ret[1][1].tax = 90000
        /\ ret[1][2].accumulated_months = 2
        /\ ret[1][2].accumulated_income = 16000000
        /\ ret[1][2].accumulated_deduction = 10000000
        /\ ret[1][2].accumulated_taxable = 6000000
        /\ ret[1][2].tax = 90000

\* the call of the scenario has returned its two rows
C17_Witness ==
    /\ TwoMonthsCall
    /\ Len(ret[1]) = 2
    /\ ret[1][1].year_month = 202501
    /\ ret[1][2].year_month = 202502

(***************************************************************************)
(* calculate_tax: the income type                                          *)
(***************************************************************************)
\* the rows of the same call with income_type 1
RowsOfTypeOne ==
    calculate_tax(credential_num, records[1], [kwargs EXCEPT !.income_type = 1])

TypeTwoDone == DirectDone /\ kwargs.income_type = 2

\* the income of the month is 0.8 of the month's total with income_type
\* 1, the month's total otherwise
MonthlyIncomeByType ==
    DirectDone =>
        \A k \in DOMAIN ret[1] :
            ret[1][k].calculation_steps.monthly_income =
                IF kwargs.income_type = 1
                THEN Round2((ret[1][k].calculation_steps.total_amount * 8) \div 10)
                ELSE ret[1][k].calculation_steps.total_amount

\* C18 as stated: the income of the month follows the income type, and
\* for the same records and deductions income_type 2 gives on every row a
\* higher accumulated_taxable than income_type 1
C18_Original ==
    /\ MonthlyIncomeByType
    /\ TypeTwoDone =>
          /\ Len(ret[1]) = Len(RowsOfTypeOne)
          /\ \A k \in DOMAIN ret[1] :
                ret[1][k].accumulated_taxable > RowsOfTypeOne[k].accumulated_taxable

\* C18 amended: the income of the month follows the income type, and
\* income_type 2 gives on every row an accumulated_taxable that is not
\* lower than with income_type 1, and higher wherever it is above zero
C18_IncomeType ==
    /\ MonthlyIncomeByType
    /\ TypeTwoDone =>
          /\ Len(ret[1]) = Len(RowsOfTypeOne)
          /\ \A k \in DOMAIN ret[1] :
                /\ ret[1][k].accumulated_taxable >= RowsOfTypeOne[k].accumulated_taxable
                /\ ret[1][k].accumulated_taxable > 0
                   => ret[1][k].accumulated_taxable > RowsOfTypeOne[k].accumulated_taxable

\* one row with nothing taxable under either type, one with more taxable
\* under income_type 2
C18_Witness ==
    /\ TypeTwoDone
    /\ \E k \in DOMAIN ret[1] :
          /\ ret[1][k].accumulated_taxable = 0
          /\ RowsOfTypeOne[k].accumulated_taxable = 0
    /\ \E k \in DOMAIN ret[1] :
          /\ RowsOfTypeOne[k].accumulated_taxable > 0
          /\ ret[1][k].accumulated_taxable > RowsOfTypeOne[k].accumulated_taxable

(***************************************************************************)
(* The quick deduction against the tax bracket by bracket                  *)
(***************************************************************************)
Min(a, b) == IF a <= b THEN a ELSE b

\* the sum of two unrounded taxes
FineAdd(x, y) ==
    [c |-> x.c + y.c + ((x.f + y.f) \div 1000), f |-> (x.f + y.f) % 1000]

\* an unrounded tax in thousandths of a cent, for differences of small taxes
FineDiff(x, y) == (x.c - y.c) * 1000 + (x.f - y.f)

\* the part of the income t that lies in bracket i (the seventh has no
\* upper bound), and the rate of the bracket in percent
SliceOf(t, i) ==
    LET lower == IF i = 1 THEN 0 ELSE BracketTable[i - 1][1]
        upper == IF i = 7 THEN t ELSE Min(t, BracketTable[i][1])
    IN  Max(0, upper - lower)

RateOf(i) == IF i = 7 THEN TopBracket[1] ELSE BracketTable[i][2]

\* the tax bracket by bracket: every slice at the rate of its bracket,
\* summed over the brackets 1..i
RECURSIVE MarginalTax(_, _)
MarginalTax(t, i) ==
    IF i = 0 THEN FineZero
    ELSE FineAdd(MarginalTax(t, i - 1), TaxProduct(SliceOf(t, i), RateOf(i), 0))

\* t * rate(t) - quick_deduction(t) with the bracket the lookup gives
QuickTax(t) ==
    LET rd == get_tax_rate_and_deduction(t)
    IN  TaxProduct(t, rd[1], rd[2])

\* C19: for a taxable income t >= 0 the tax by the quick deduction is the
\* tax bracket by bracket, and one cent more of income adds between
\* nothing and 0.45 cent of tax, also across a threshold
C19_QuickDeductionIsMarginal ==
    (bracket # None /\ taxable_income >= 0) =>
        /\ TaxProduct(taxable_income, bracket[1][1], bracket[1][2])
               = MarginalTax(taxable_income, 7)
        /\ taxable_income >= 10 =>
              /\ FineDiff(QuickTax(taxable_income), QuickTax(taxable_income - 10)) >= 0
              /\ FineDiff(QuickTax(taxable_income), QuickTax(taxable_income - 10)) <= 450

\* the lookup of 300000.01: the tax is 43080.00 plus a quarter of a cent
C19_Witness ==
    /\ taxable_income = 300000010
    /\ bracket = Some(<<25, 31920000>>)
    /\ MarginalTax(taxable_income, 7) = [c |-> 4308000, f |-> 250]

(***************************************************************************)
(* calculate_tax_by_batch: nobody to process                               *)
(***************************************************************************)
\* the call looked for people (by the batch number, or in mock mode with
\* no credential number) and found none
NobodyFound ==
    /\ pc = "done"
    /\ Branch(kwargs.use_mock, batch_no, kwargs.credential_num)
           \in {"batch", "mock_nobody"}
    /\ people_to_process = <<>>

\* C20: a batch call that finds nobody to process returns an empty list
\* and does not raise
C20_NobodyGivesEmpty ==
    NobodyFound => (ret = Some(<<>>) /\ ~raised)

\* the table has rows, none of the requested batch
C20_Witness ==
    /\ NobodyFound
    /\ BatchPath
    /\ mock_data = None
    /\ table # {}
    /\ \A row \in table : Some(row.batch_no) # batch_no
    /\ ret = Some(<<>>)

(***************************************************************************)
(* EnterpriseSettlementService (app/services/settlement_service.py)        *)
(***************************************************************************)
MaxItems == 2

\* what one POST can do: answer 2xx with a JSON body, raise before any
\* response (network), answer with an HTTP error status, or answer 2xx
\* with a body that is not JSON
PostOutcomes == {"ok", "raises", "http_error", "bad_body"}

\* response.status_code, where there is a response
StatusCode(outcome) ==
    CASE outcome = "ok"         -> Some(200)
      [] outcome = "bad_body"   -> Some(200)
      [] outcome = "http_error" -> Some(500)
      [] outcome = "raises"     -> None

\* str(e) of the exception each failing outcome raises inside the try:
\* requests.post, response.raise_for_status() or response.json()
ExceptionText(outcome) ==
    CASE outcome = "raises"     -> "Network Error"
      [] outcome = "http_error" -> "500 Server Error"
      [] outcome = "bad_body"   -> "Expecting value"

\* response.json() of a 2xx answer with a JSON body
ResponseBody == [code |-> 0, msg |-> "success"]

\* _post without its except clause: the exception leaves the call
post_NoCatch(outcome) ==
    IF outcome = "ok"
    THEN [raised |-> FALSE, success |-> TRUE, data |-> Some(ResponseBody),
          error |-> None, status_code |-> StatusCode(outcome)]
    ELSE [raised |-> TRUE, success |-> FALSE, data |-> None,
          error |-> Some(ExceptionText(outcome)), status_code |-> None]

\* _post that reports every answer as a success
post_AlwaysSuccess(outcome) ==
    [raised |-> FALSE, success |-> TRUE, data |-> Some(ResponseBody),
     error |-> None, status_code |-> StatusCode(outcome)]

\* _post: raised is whether the call ends by an exception; the other fields
\* are the returned dict, a key the dict lacks being None
post(outcome) ==
    IF outcome = "ok"
    THEN [raised |-> FALSE, success |-> TRUE, data |-> Some(ResponseBody),
          error |-> None, status_code |-> StatusCode(outcome)]
    ELSE [raised |-> FALSE, success |-> FALSE, data |-> None,
          error |-> Some(ExceptionText(outcome)),
          status_code |-> StatusCode(outcome)]

\* _launch_batch: an exception of _post would leave it too
launch_batch(batch_no_arg, name, outcome) ==
    LET result == post(outcome)
    IN  [raised |-> result.raised,
         batch_no |-> batch_no_arg,
         balance_no |-> None,
         enterprise |-> name,
         result |-> result]

\* _launch_balance
launch_balance(batch_no_arg, balance_no_arg, name, outcome) ==
    LET result == post(outcome)
    IN  [raised |-> result.raised,
         batch_no |-> batch_no_arg,
         balance_no |-> Some(balance_no_arg),
         enterprise |-> name,
         result |-> result]

\* the three phases of _process_enterprise, and the mode that selects each
Phases == <<"launch", "relaunch", "balance">>
PhaseMode(phase) ==
    CASE phase = "launch" -> 1 [] phase = "relaunch" -> 2 [] phase = "balance" -> 3

\* the balance phase before the relaunch phase
NextPhase_BalanceFirst(phase) ==
    CASE phase = "launch"   -> "balance"
      [] phase = "balance"  -> "relaunch"
      [] phase = "relaunch" -> "return"

NextPhase(phase) ==
    CASE phase = "launch"   -> "relaunch"
      [] phase = "relaunch" -> "balance"
      [] phase = "balance"  -> "return"

\* every phase runs, whatever the mode
PhaseSelected_IgnoresMode(mode, phase) == TRUE

\* `not self.mode or self.mode == n`: None and 0 are both falsy
PhaseSelected(mode, phase) ==
    IF mode = None THEN TRUE
    ELSE mode[1] = 0 \/ mode[1] = PhaseMode(phase)

\* the (batch_no, balance_no) pairs of a balance map, in the order of the
\* two nested loops over balance_map.items()
RECURSIVE AllTasks(_)
AllTasks(balance_map) ==
    IF balance_map = <<>> THEN <<>>
    ELSE LET batch_no_ == balance_map[1][1]
             balance_list == balance_map[1][2]
         IN  [i \in 1..Len(balance_list) |->
                 [batch_no |-> batch_no_, balance_no |-> Some(balance_list[i])]]
             \o AllTasks(Tail(balance_map))

\* the calls one phase makes, in submission order
PhaseTasks(task, phase) ==
    CASE phase = "launch" ->
           [i \in 1..Len(task.items1) |->
               [batch_no |-> task.items1[i], balance_no |-> None]]
      [] phase = "relaunch" ->
           [i \in 1..Len(task.items2) |->
               [batch_no |-> task.items2[i], balance_no |-> None]]
      [] phase = "balance" -> AllTasks(task.items3)

\* the call a phase makes for one of its tasks
Launch(t, name, outcome) ==
    IF t.balance_no = None
    THEN launch_batch(t.batch_no, name, outcome)
    ELSE launch_balance(t.batch_no, t.balance_no[1], name, outcome)

\* one call of _launch_batch or _launch_balance: the request it sent, what
\* the server did with it, and what the call returned
Request(phase, t, outcome, returned) ==
    [phase |-> phase, batch_no |-> t.batch_no, balance_no |-> t.balance_no,
     outcome |-> outcome, returned |-> returned]

\* the key of the results dict a phase extends
ResultsKey(phase) ==
    CASE phase = "launch"   -> "launch_batch_results"
      [] phase = "relaunch" -> "relaunch_batch_results"
      [] phase = "balance"  -> "launch_balance_results"

SettleBatchNos == {"B001", "B002"}
ItemLists == SeqsUpTo(SettleBatchNos, MaxItems)
RelaunchLists == {<<>>, <<"B003">>}
\* a dict as the sequence of its items, in insertion order
BalanceMaps == {<<>>, << <<"B004", <<"S1">>>> >>}
Modes == {None, Some(0), Some(1), Some(2), Some(3)}
Workers == {1, 2}
\* interval_seconds: 0.0, or some positive number of seconds
Intervals == {0, 1}

InitSettle ==
    /\ Idle
    /\ NoThreads
    /\ pc = "settle"
    /\ mock_data = None
    /\ table = {}
    /\ year = 2025
    /\ batch_no = None
    /\ kwargs = NoDeductions @@ [income_type |-> 1, credential_num |-> None,
                                 use_mock |-> FALSE]
    /\ credential_num = "A"
    /\ records = None
    /\ caller = "direct"
    /\ taxable_income = 0
    /\ bracket = None
    /\ posts = <<>>
    /\ \E mode \in Modes, workers \in Workers, interval \in Intervals,
          items1 \in ItemLists, items2 \in RelaunchLists,
          items3 \in BalanceMaps :
         settle = [mode |-> mode, workers |-> workers, interval |-> interval,
                   task |-> [name |-> "Test Enterprise", items1 |-> items1,
                             items2 |-> items2, items3 |-> items3],
                   phase |-> "launch",
                   step |-> "enter",
                   futures |-> <<>>,
                   idx |-> 0,
                   batch_results |-> <<>>,
                   results |-> [enterprise |-> "Test Enterprise",
                                launch_batch_results |-> <<>>,
                                relaunch_batch_results |-> <<>>,
                                launch_balance_results |-> <<>>],
                   ret |-> None,
                   raised |-> FALSE]

OtherVars == <<envVars, batchVars, argVars, localVars, ctlVars, probeVars,
               threadVars>>

InPhase == settle.phase \in {"launch", "relaunch", "balance"}

\* lines 85, 91, 97: the phase is not selected
PhaseSkip ==
    /\ InPhase
    /\ settle.step = "enter"
    /\ ~PhaseSelected(settle.mode, settle.phase)
    /\ settle' = [settle EXCEPT !.phase = NextPhase(settle.phase)]
    /\ UNCHANGED <<posts, OtherVars>>

\* _process_batches / _process_balances: sequential when interval > 0,
\* otherwise every call is submitted to a new pool
PhaseEnter ==
    /\ InPhase
    /\ settle.step = "enter"
    /\ PhaseSelected(settle.mode, settle.phase)
    /\ LET tasks == PhaseTasks(settle.task, settle.phase)
       IN  settle' =
             IF settle.interval > 0
             THEN [settle EXCEPT !.step = "sequential", !.idx = 1,
                                 !.batch_results = <<>>]
             ELSE [settle EXCEPT !.step = "concurrent",
                                 !.batch_results = <<>>,
                                 !.futures =
                                    [i \in 1..Len(tasks) |->
                                        [args |-> tasks[i],
                                         state |-> "pending",
                                         value |-> None]]]
    /\ UNCHANGED <<posts, OtherVars>>

\* the phase's list is extended by the results of the run, and the next
\* phase is reached
EndPhase(s) ==
    [s EXCEPT !.results[ResultsKey(s.phase)] = @ \o s.batch_results,
              !.batch_results = <<>>,
              !.futures = <<>>,
              !.idx = 0,
              !.step = "enter",
              !.phase = NextPhase(s.phase)]

\* _run_sequential_batches / _run_sequential_balances: one turn of the loop
SequentialLaunch ==
    /\ InPhase
    /\ settle.step = "sequential"
    /\ LET tasks == PhaseTasks(settle.task, settle.phase)
       IN  /\ settle.idx <= Len(tasks)
           /\ \E outcome \in PostOutcomes :
                LET result == Launch(tasks[settle.idx], settle.task.name,
                                     outcome)
                IN  /\ posts' = Append(posts, Request(settle.phase,
                                          tasks[settle.idx], outcome, result))
                    /\ settle' =
                         IF result.raised
                         THEN [settle EXCEPT !.phase = "raised",
                                             !.raised = TRUE]
                         ELSE [settle EXCEPT
                                 !.batch_results = Append(@, result),
                                 !.idx = @ + 1]
    /\ UNCHANGED OtherVars

\* the loop is over
SequentialReturn ==
    /\ InPhase
    /\ settle.step = "sequential"
    /\ settle.idx > Len(PhaseTasks(settle.task, settle.phase))
    /\ settle' = EndPhase(settle)
    /\ UNCHANGED <<posts, OtherVars>>

Running(futures_) == {i \in DOMAIN futures_ : futures_[i].state = "running"}

\* a worker of the pool takes the oldest queued call; the pool has at most
\* max_workers threads
WorkerStart ==
    /\ InPhase
    /\ settle.step \in {"concurrent", "failed"}
    /\ \E i \in DOMAIN settle.futures :
         /\ settle.futures[i].state = "pending"
         /\ \A j \in 1..(i - 1) : settle.futures[j].state # "pending"
         /\ Cardinality(Running(settle.futures)) < settle.workers
         /\ settle' = [settle EXCEPT !.futures[i].state = "running"]
    /\ UNCHANGED <<posts, OtherVars>>

\* a worker runs its call to the end: the request is sent, answered, and
\* the future holds what the call returned or raised
WorkerFinish ==
    /\ InPhase
    /\ settle.step \in {"concurrent", "failed"}
    /\ \E i \in Running(settle.futures), outcome \in PostOutcomes :
         LET f == settle.futures[i]
             result == Launch(f.args, settle.task.name, outcome)
         IN  /\ posts' = Append(posts, Request(settle.phase, f.args, outcome,
                                               result))
             /\ settle' = [settle EXCEPT
                   !.futures[i].state = "finished",
                   !.futures[i].value = Some(result)]
    /\ UNCHANGED OtherVars

\* as_completed yields a finished future, in no particular order;
\* f.result() returns the call's value or raises its exception
Collect ==
    /\ InPhase
    /\ settle.step = "concurrent"
    /\ \E i \in DOMAIN settle.futures :
         /\ settle.futures[i].state = "finished"
         /\ LET result == settle.futures[i].value[1]
            IN  settle' =
                  IF result.raised
                  THEN [settle EXCEPT !.futures[i].state = "yielded",
                                      !.step = "failed"]
                  ELSE [settle EXCEPT !.futures[i].state = "yielded",
                                      !.batch_results = Append(@, result)]
    /\ UNCHANGED <<posts, OtherVars>>

\* the with block ends once every submitted call has run; the results are
\* returned, or the exception of f.result() leaves _process_enterprise
ConcurrentReturn ==
    /\ InPhase
    /\ settle.step \in {"concurrent", "failed"}
    /\ \A i \in DOMAIN settle.futures :
          IF settle.step = "failed"
          THEN settle.futures[i].state \in {"finished", "yielded"}
          ELSE settle.futures[i].state = "yielded"
    /\ settle' = IF settle.step = "failed"
                 THEN [settle EXCEPT !.phase = "raised", !.raised = TRUE]
                 ELSE EndPhase(settle)
    /\ UNCHANGED <<posts, OtherVars>>

\* line 103
ProcessEnterpriseReturn ==
    /\ settle.phase = "return"
    /\ settle' = [settle EXCEPT !.phase = "done",
                                !.ret = Some(settle.results)]
    /\ UNCHANGED <<posts, OtherVars>>

NextSettle ==
    \/ PhaseSkip
    \/ PhaseEnter
    \/ SequentialLaunch
    \/ SequentialReturn
    \/ WorkerStart
    \/ WorkerFinish
    \/ Collect
    \/ ConcurrentReturn
    \/ ProcessEnterpriseReturn

SpecSettle == InitSettle /\ [][NextSettle]_vars

(***************************************************************************)
(* _launch_batch: what a call returns, whatever the POST does              *)
(***************************************************************************)
\* the calls of _launch_batch made so far (the launch and relaunch phases)
LaunchBatchCalls ==
    {k \in DOMAIN posts : posts[k].phase \in {"launch", "relaunch"}}

\* the call returned a dict for the requested batch
ReturnsDict(call) ==
    /\ ~call.returned.raised
    /\ call.returned.batch_no = call.batch_no

\* the dict reports a success, with the response body
ReportsSuccess(call) ==
    /\ call.returned.result.success
    /\ call.returned.result.data = Some(ResponseBody)

\* the dict reports a failure, with the text of the exception
ReportsFailure(call) ==
    /\ ~call.returned.result.success
    /\ call.returned.result.error = Some(ExceptionText(call.outcome))

\* C21 as stated: the call returns a dict for the requested batch, reports
\* a success with the body whenever the POST was answered without an HTTP
\* error status, and reports a failure with the exception text when the
\* POST raised or was answered with an HTTP error status
C21_Original ==
    \A k \in LaunchBatchCalls :
        /\ ReturnsDict(posts[k])
        /\ posts[k].outcome \in {"ok", "bad_body"} => ReportsSuccess(posts[k])
        /\ posts[k].outcome \in {"raises", "http_error"}
              => ReportsFailure(posts[k])

\* C21: _launch_batch never raises and returns a dict for the requested
\* batch; it reports a success with the response body when the POST is
\* answered without an HTTP error status and the body parses as JSON, and
\* a failure with the exception text when the POST raises, is answered
\* with an HTTP error status, or is answered with a body that is not JSON
C21_LaunchBatchContract ==
    \A k \in LaunchBatchCalls :
        /\ ReturnsDict(posts[k])
        /\ posts[k].outcome = "ok" => ReportsSuccess(posts[k])
        /\ posts[k].outcome # "ok" => ReportsFailure(posts[k])

\* an enterprise whose batches met a network error, an HTTP error status
\* and a body that is not JSON, all of them reported in the returned lists
C21_Witness ==
    /\ settle # <<>>
    /\ settle.phase = "done"
    /\ \E i, j, k \in LaunchBatchCalls :
         /\ posts[i].outcome = "raises"
         /\ posts[j].outcome = "http_error"
         /\ posts[k].outcome = "bad_body"
    /\ Len(settle.results.launch_batch_results)
         + Len(settle.results.relaunch_batch_results)
           = Cardinality(LaunchBatchCalls)

\* a POST answered with status 200 and a body that is not JSON
C21_Counterexample ==
    \E k \in LaunchBatchCalls :
        /\ posts[k].outcome = "bad_body"
        /\ posts[k].returned.result.status_code = Some(200)
        /\ ~posts[k].returned.result.success

(***************************************************************************)
(* _process_enterprise: which phases run, in which order                   *)
(***************************************************************************)
SettleDone == settle # <<>> /\ settle.phase = "done"

\* the calls made so far in one phase
CallsOf(phase) == {k \in DOMAIN posts : posts[k].phase = phase}

\* how many elements of a sequence are about one batch
CountBatch(s, b) == Cardinality({i \in DOMAIN s : s[i].batch_no = b})

\* the calls of a phase are exactly its tasks, each made once, and its
\* result list holds exactly one entry per task, in any order
OncePerTask(phase) ==
    LET tasks == PhaseTasks(settle.task, phase)
        entries == settle.results[ResultsKey(phase)]
        made == [k \in 1..Len(posts) |->
                     IF posts[k].phase = phase
                     THEN posts[k] ELSE [batch_no |-> "none"]]
    IN  /\ Len(entries) = Len(tasks)
        /\ Cardinality(CallsOf(phase)) = Len(tasks)
        /\ \A i \in DOMAIN tasks :
             /\ CountBatch(made, tasks[i].batch_no)
                  = CountBatch(tasks, tasks[i].batch_no)
             /\ CountBatch(entries, tasks[i].batch_no)
                  = CountBatch(tasks, tasks[i].batch_no)

\* with mode = 1 the call returns one launch_batch_results entry per batch
\* of items1, each batch launched once, and nothing else is launched
ModeOneLaunchesOnce ==
    (SettleDone /\ settle.mode = Some(1)) =>
        /\ settle.ret = Some(settle.results)
        /\ OncePerTask("launch")
        /\ CallsOf("relaunch") = {} /\ CallsOf("balance") = {}
        /\ settle.results.relaunch_batch_results = <<>>
        /\ settle.results.launch_balance_results = <<>>

PhaseIndex(phase) ==
    CASE phase = "launch" -> 1 [] phase = "relaunch" -> 2 [] phase = "balance" -> 3

\* with mode unset every phase runs; when a call of one phase is made,
\* every call of the phases before it has been made and has returned, and
\* their results are in the lists of those phases
PhasesInOrder ==
    (settle # <<>> /\ settle.mode = None) =>
        /\ \A k \in DOMAIN posts : \A q \in 1..3 :
              q < PhaseIndex(posts[k].phase) =>
                 /\ Cardinality({j \in 1..(k - 1) : posts[j].phase = Phases[q]})
                      = Len(PhaseTasks(settle.task, Phases[q]))
                 /\ Len(settle.results[ResultsKey(Phases[q])])
                      = Len(PhaseTasks(settle.task, Phases[q]))
        /\ \A j, k \in DOMAIN posts :
              j < k => PhaseIndex(posts[j].phase) <= PhaseIndex(posts[k].phase)
        /\ SettleDone => \A q \in 1..3 : OncePerTask(Phases[q])

\* C22: _process_enterprise with mode = 1 launches each batch of items1
\* once and returns one launch_batch_results entry per batch, whatever the
\* completion order of the workers, leaving the two other lists empty; with
\* mode unset it runs launch, relaunch, balance in that order, each phase
\* finishing before the next starts; it does not raise
C22_PhasesAndEntries ==
    /\ ModeOneLaunchesOnce
    /\ PhasesInOrder
    /\ settle # <<>> => ~settle.raised

\* mode = 1, two workers: the second batch completed first, both entries
\* are returned, and the relaunch and balance items were left alone
C22_Witness ==
    /\ SettleDone
    /\ settle.mode = Some(1)
    /\ settle.interval = 0
    /\ settle.workers = 2
    /\ settle.task.items1 = <<"B001", "B002">>
    /\ settle.task.items2 # <<>>
    /\ settle.task.items3 # <<>>
    /\ posts[1].batch_no = "B002"
    /\ settle.results.launch_batch_results[1].batch_no = "B002"
    /\ settle.results.launch_batch_results[2].batch_no = "B001"

\* mode unset: all three phases ran to the end, concurrently inside each
C22_AllPhasesRan ==
    /\ SettleDone
    /\ settle.mode = None
    /\ settle.interval = 0
    /\ settle.workers = 2
    /\ Len(settle.task.items1) = 2
    /\ CallsOf("relaunch") # {}
    /\ CallsOf("balance") # {}

(***************************************************************************)
(* calculate_tax: continuity from one row to the next                      *)
(***************************************************************************)
\* row k is for a record of the same year as the record of row k - 1 and
\* at most one month later
Continues(k) ==
    /\ k > 1
    /\ YearOf(results[k].year_month) = YearOf(results[k - 1].year_month)
    /\ MonthOf(results[k].year_month) - MonthOf(results[k - 1].year_month) <= 1

\* C23: a valid record of the same year as the previous valid record and
\* at most one month later is processed without a reset: its row starts
\* from the income and the tax the previous row ended with; the first row
\* of a call starts from 0 and 0
C23_Continuity ==
    \A k \in Rows :
        /\ k = 1 => /\ results[k].prev_accumulated_income = 0
                    /\ results[k].prev_accumulated_tax = 0
        /\ Continues(k) =>
              /\ results[k].calculation_steps.reset_reason = <<>>
              /\ results[k].prev_accumulated_income
                    = results[k - 1].accumulated_income
              /\ results[k].prev_accumulated_tax
                    = results[k - 1].accumulated_tax
              /\ results[k].accumulated_months
                    >= results[k - 1].accumulated_months

\* a November row that continues an October row which paid tax, in a call
\* that also skipped an invalid record
C23_Witness ==
    /\ pc = "done"
    /\ \E k \in Rows :
         /\ k > 1
         /\ results[k].year_month = 202511
         /\ results[k - 1].year_month = 202510
         /\ results[k].prev_accumulated_tax > 0
         /\ results[k].prev_accumulated_income > 0
         /\ results[k].accumulated_months = 2
    /\ \E i \in DOMAIN sorted_records : InvalidAmount(sorted_records[i])

(***************************************************************************)
(* calculate_tax: the deductions of a row                                  *)
(***************************************************************************)
\* C24: on every row the standard deduction is 5000 a month, each of the
\* four monthly deductions is its option (as parsed: not below 0) times
\* the month count, the donation is its option as it is, and the taxable
\* income is the income less all six, not below 0
C24_Deductions ==
    LET o == ParseOptions(kwargs)
    IN  \A k \in Rows :
          LET row == results[k]
              n == row.accumulated_months
          IN  /\ row.accumulated_deduction = 5000000 * n
              /\ row.accumulated_special = o.accumulated_special_deduction * n
              /\ row.accumulated_additional
                    = o.accumulated_additional_deduction * n
              /\ row.accumulated_other = o.accumulated_other_deduction * n
              /\ row.accumulated_pension = o.accumulated_pension_deduction * n
              /\ row.accumulated_donation = o.accumulated_donation_deduction
              /\ row.accumulated_taxable
                    = Max(0, row.accumulated_income - row.accumulated_deduction
                             - row.accumulated_special
                             - row.accumulated_additional
                             - row.accumulated_other - row.accumulated_pension
                             - row.accumulated_donation)

\* a second month with every deduction option given: the monthly ones are
\* doubled, the donation is not, and taxable income is left
C24_Witness ==
    \E k \in Rows :
        /\ results[k].accumulated_months = 2
        /\ results[k].accumulated_special = 2000000
        /\ results[k].accumulated_pension = 800000
        /\ results[k].accumulated_donation = 50000
        /\ results[k].accumulated_taxable > 0

(***************************************************************************)
(* calculate_tax: the reset reason in the steps of a row                   *)
(***************************************************************************)
\* the reason a reset between the rows k - 1 and k is given
ExpectedReason(k) ==
    IF ~ResetAt(k) THEN <<>>
    ELSE <<IF YearOf(results[k].year_month) # YearOf(results[k - 1].year_month)
           THEN "year_reset" ELSE "gap_reset",
           results[k - 1].year_month, results[k].year_month>>

\* C25: the steps of a row hold a reset reason exactly when a reset fired
\* while the row's record was processed, naming the two months; the rows
\* of later records of the month, and every row without a reset, hold none
C25_ReasonOnResetRowOnly ==
    /\ \A k \in Rows :
          /\ results[k].calculation_steps.reset_reason = ExpectedReason(k)
          /\ results[k].calculation_steps.reset_reason # <<>> <=> ResetAt(k)
    /\ \A m \in DOMAIN monthly_accumulators :
          pc = "loop" => monthly_accumulators[m].reset_reason = <<>>

\* a December record after an October record, then a second December record
C25_Witness ==
    \E k \in Rows :
        /\ k > 1
        /\ k < Len(results)
        /\ results[k - 1].year_month = 202510
        /\ results[k].year_month = 202512
        /\ results[k].calculation_steps.reset_reason
              = <<"gap_reset", 202510, 202512>>
        /\ results[k + 1].year_month = 202512
        /\ results[k + 1].calculation_steps.reset_reason = <<>>

(***************************************************************************)
(* calculate_tax: a reset erases all history                               *)
(***************************************************************************)
\* the records of the rows computed so far: the first records of the
\* sorted list that line 346 does not skip
ProcessedRecords ==
    SubSeq(ValidRecords(sorted_records), 1, Len(results))

\* rows as they compare with the rows of another call: the reason of the
\* reset that precedes the first one is no number
WithoutFirstReason(rows) ==
    IF rows = <<>> THEN rows
    ELSE [rows EXCEPT ![1].calculation_steps.reset_reason = <<>>]

\* the rows from row k on
RowsFrom(k) == SubSeq(results, k, Len(results))

\* C26: when a reset fires at a record, the rows of that record and of the
\* records after it are the rows calculate_tax returns for those records
\* alone
C26_ResetErasesHistory ==
    (caller = "direct" /\ pc \in {"loop", "done"} /\ results # <<>>) =>
        \A k \in Rows :
            ResetAt(k) =>
                WithoutFirstReason(RowsFrom(k))
                    = calculate_tax(credential_num,
                                    SubSeq(ProcessedRecords, k, Len(results)),
                                    kwargs)

\* a reset at the second of three rows, after a row that paid tax, and two
\* rows of the same month after it
C26_Witness ==
    /\ Len(results) = 3
    /\ results[1].accumulated_tax > 0
    /\ ResetAt(2)
    /\ results[3].year_month = results[2].year_month
    /\ results[3].prev_accumulated_tax > 0
    /\ results[3].accumulated_months = 1

(***************************************************************************)
(* calculate_tax: the paid total                                           *)
(***************************************************************************)
\* the sum of the tax fields of the rows since the last reset, row k
\* included
TaxSince(k) == SumOver(Segment(k), [j \in Segment(k) |-> results[j].tax])

\* C27: on every row accumulated_tax is prev_accumulated_tax plus tax, and
\* it is the sum of the tax of the rows since the last reset, this row
\* included
C27_PaidTotalIsSum ==
    \A k \in Rows :
        /\ results[k].accumulated_tax
              = results[k].prev_accumulated_tax + results[k].tax
        /\ results[k].accumulated_tax = TaxSince(k)
        /\ (pc = "loop" /\ k = Len(results)) => accumulated_tax = TaxSince(k)

\* three rows: the first paid tax, a reset, then two rows that paid tax
C27_Witness ==
    /\ Len(results) = 3
    /\ results[1].tax > 0
    /\ ResetAt(2)
    /\ results[2].tax > 0
    /\ results[3].tax > 0
    /\ results[3].accumulated_tax = results[2].tax + results[3].tax

(***************************************************************************)
(* calculate_tax: withholding never falls behind and is never refunded     *)
(***************************************************************************)
\* a new month whose deductions exceed its income
MonthLowersTaxable(k) ==
    /\ k > 1
    /\ ~ResetAt(k)
    /\ results[k].year_month # results[k - 1].year_month
    /\ results[k].accumulated_taxable < results[k - 1].accumulated_taxable

\* C28: between resets the paid total never decreases; on every row it is
\* at least the cumulative tax of the row's taxable income, rounded half
\* up, and equal to it whenever that is at least the paid total before;
\* when a new month lowers the taxable income the row's tax is 0 and the
\* paid total stays
C28_NeverBehindNeverRefunded ==
    \A k \in Rows :
        /\ results[k].accumulated_tax >= PaidBefore(k)
        /\ results[k].accumulated_tax >= RowFormulaTax(k)
        /\ RowFormulaTax(k) >= PaidBefore(k)
              => results[k].accumulated_tax = RowFormulaTax(k)
        /\ results[k].tax >= 0
        /\ MonthLowersTaxable(k) =>
              /\ results[k].tax = 0
              /\ results[k].accumulated_tax = results[k - 1].accumulated_tax

\* November lowers the taxable income October left: nothing is due, and
\* the paid total stays above the cumulative tax
C28_Witness ==
    \E k \in Rows :
        /\ MonthLowersTaxable(k)
        /\ results[k].accumulated_taxable > 0
        /\ results[k - 1].accumulated_tax > 0
        /\ results[k].tax = 0
        /\ results[k].accumulated_tax > RowFormulaTax(k)

(***************************************************************************)
(* calculate_tax: the annual income and the bills it comes from            *)
(***************************************************************************)
\* the sum of the bills of the rows since the last reset, row k included
BillsSince(k) ==
    SumOver(Segment(k), [j \in Segment(k) |-> results[j].bill_amount])

\* C29: after every record the unrounded accumulated_income is
\* revenue_bills times 0.8 (income type 1) or times 1 (otherwise), and
\* revenue_bills is the sum of the bills of the valid records processed
\* since the last reset; a reset zeroes both
C29_IncomeIsFactorOfBills ==
    /\ \A k \in Rows :
          /\ results[k].revenue_bills = BillsSince(k)
          /\ results[k].accumulated_income
                = Round2(IncomeOf(kwargs.income_type, BillsSince(k)))
          /\ ResetAt(k) =>
                /\ results[k].revenue_bills = results[k].bill_amount
                /\ results[k].prev_accumulated_income = 0
    /\ (pc = "loop" /\ results # <<>>) =>
          /\ revenue_bills = BillsSince(Len(results))
          /\ 10 * accumulated_income
                = (IF kwargs.income_type = 1 THEN 8 ELSE 10) * revenue_bills

\* income type 1: a record, a reset, then two records of one month
C29_Witness ==
    /\ pc = "loop"
    /\ kwargs.income_type = 1
    /\ Len(results) = 3
    /\ ResetAt(2)
    /\ results[3].year_month = results[2].year_month
    /\ revenue_bills = results[2].bill_amount + results[3].bill_amount
    /\ revenue_bills > results[1].bill_amount
    /\ 10 * accumulated_income = 8 * revenue_bills

(***************************************************************************)
(* calculate_tax_by_batch: one person's rows and the other people          *)
(***************************************************************************)
\* the group of person c holds records of c only, and when it is not empty
\* it holds every record of the year the table has for c, each once, by
\* payment time
OwnRecordsOnly(c) ==
    LET mine == RecordsOf(records_by_person, c)
    IN  /\ \A k \in DOMAIN mine : mine[k].credential_num = c
        /\ mine # <<>> =>
              /\ Range(mine) = YearRecords(c)
              /\ Len(mine) = Cardinality(YearRecords(c))
              /\ ByPaymentTime(mine)

\* the rows of person c are the rows of calculate_tax on the group of c
\* alone, filtered by the batch; a person who is not processed has none
OwnRowsOnly(c) ==
    /\ RowsOf(ret[1], c) =
          IF c \in Range(people_to_process) THEN AloneRows(c) ELSE <<>>
    /\ \A k \in DOMAIN RowsOf(ret[1], c) :
          \E r \in YearRecords(c) :
              /\ Some(RowsOf(ret[1], c)[k].bill_amount) = r.bill_amount
              /\ RowsOf(ret[1], c)[k].year_month = r.year_month
              /\ RowsOf(ret[1], c)[k].batch_no = r.batch_no

\* C30: in the batch path the bulk list is partitioned by credential
\* number, and the rows returned for a person are those computed from that
\* person's records alone, whatever records the other people have
C30_PerPersonNoninterference ==
    (Returned /\ BatchPath /\ people_to_process # <<>>) =>
        /\ \A c \in CredentialNums : OwnRecordsOnly(c) /\ OwnRowsOnly(c)
        /\ \A k \in DOMAIN ret[1] : ret[1][k].credential_num \in CredentialNums

\* two people of the batch: A has one record and one row, of one month and
\* one bill, while B has two records and two rows
C30_Witness ==
    /\ Returned
    /\ BatchPath
    /\ Len(people_to_process) = 2
    /\ Len(RecordsOf(records_by_person, "A")) = 1
    /\ Len(RecordsOf(records_by_person, "B")) = 2
    /\ Len(RowsOf(ret[1], "A")) = 1
    /\ RowsOf(ret[1], "A")[1].accumulated_months = 1
    /\ RowsOf(ret[1], "A")[1].revenue_bills = 10000000
    /\ Len(RowsOf(ret[1], "B")) = 2

====
